---- MODULE Spec2Model ----
(***************************************************************************)
(* A state-machine model of the jitter solver (asp/Tools/jitter_solve.cc)  *)
(* and of the camera loader it calls (asp/Sessions/CameraUtils.cc).        *)
(*                                                                         *)
(* Conventions.  C++ indices are kept 0-based; a C++ array a is a TLA+     *)
(* sequence and a[k] is written At(a, k).  Times, pixel coordinates and    *)
(* trajectory values are integers (ticks, pixels, units); the conversion   *)
(* static_cast<int>(double) is modelled on exact quotients by TruncDiv.    *)
(* A projection result is a record [kind, line, samp] where kind is "ok"   *)
(* (a pixel was returned, possibly not-a-number), "throw" (an exception    *)
(* derived from std::exception) or "other" (any other exception).          *)
(***************************************************************************)
EXTENDS Integers, Sequences, FiniteSets, TLC

\* ---------------------------------------------------------------------
\* Program constants
\* ---------------------------------------------------------------------
NUM_XYZ_PARAMS == 3

NUM_QUAT_PARAMS == 4

g_big_pixel_value == 1000

\* --max-initial-reprojection-error, default value
max_init_reproj_error == 5

numQuatPerObs == 8

numPosPerObs == 8

\* ---------------------------------------------------------------------
\* Bounds of the model
\* ---------------------------------------------------------------------
\* largest number of cameras on the command line
MaxCams == 2

\* largest value of opt.num_threads
MaxThreads == 3

\* number of tie points of the screened networks
NumPts == 2

\* largest number of observations of one camera in the screened networks
MaxObs == 2

\* largest number of samples of a trajectory sequence
MaxSamples == 12

\* largest multiple of the per-block ramp the solver adds to a candidate
MaxPerturb == 1

\* largest number of solver iterations
MaxIters == 1

\* ---------------------------------------------------------------------
\* Helpers
\* ---------------------------------------------------------------------
At(a, k) == a[k + 1]

Min(a, b) == IF a <= b THEN a ELSE b

Max(a, b) == IF a >= b THEN a ELSE b

\* floor of a/b for b > 0 (TLA+ \div rounds towards minus infinity)
FloorDiv(a, b) == a \div b

\* static_cast<int>(a / b) for b > 0: the quotient truncated towards zero
TruncDiv(a, b) == IF a >= 0 THEN a \div b ELSE -((-a) \div b)

\* the not-a-number double, kept apart from every number of the model
NaN == -2100000000

\* a - b on doubles
Sub(a, b) == IF a = NaN \/ b = NaN THEN NaN ELSE a - b

\* norm_2(<<dx, dy>>) <= m on doubles, m >= 0: false for a not-a-number
NormLeq(dx, dy, m) == dx # NaN /\ dy # NaN /\ dx * dx + dy * dy <= m * m

RECURSIVE WeightedSum(_, _)
WeightedSum(a, n) == IF n = 0 THEN 0 ELSE n * a[n] + WeightedSum(a, n - 1)

RECURSIVE SeqsOfDistinct(_, _)
\* the sequences of at most n distinct elements of S
SeqsOfDistinct(S, n) ==
  IF n = 0 THEN {<<>>}
  ELSE LET shorter == SeqsOfDistinct(S, n - 1)
       IN shorter \cup {Append(s, x) : s \in shorter, x \in S}

\* s lists its elements in increasing order (so none twice)
Increasing(s) == \A a, b \in 1..Len(s) : a < b => s[a] < s[b]

\* ---------------------------------------------------------------------
\* External primitives (the camera capability of the linescan sensor
\* model).  They are abstractions of library code: any function of the
\* camera state would do, these make every sample and every coordinate
\* count and make each failure mode reachable.
\* ---------------------------------------------------------------------

\* asp::toCsmPixel: pixel (x, y) to image coordinate (line, samp)
toCsmPixel(pix) == [line |-> pix[2], samp |-> pix[1]]

\* asp::fromCsmPixel
fromCsmPixel(imagePt) == <<imagePt.samp, imagePt.line>>

\* UsgsAstroLsSensorModel::getImageTime: a linescan sensor images one row
\* at a time, at a constant rate (negative when rows are acquired in
\* decreasing order)
getImageTime(cam, imagePt) == cam.startTime + cam.intTime * imagePt.line

\* UsgsAstroLsSensorModel::groundToImage.  With no sample it cannot
\* interpolate and throws.  Otherwise the height d of the point over the
\* first position sample decides: a point at that height gives a
\* not-a-number pixel (and no exception), a point just below it a
\* std::exception, a point further below an exception of another type.
groundToImage(quats, positions, P) ==
  IF Len(quats) = 0 \/ Len(positions) = 0
    THEN [kind |-> "throw", line |-> 0, samp |-> 0]
  ELSE LET d == P[3] - positions[3]
       IN IF d = 0 THEN [kind |-> "ok", line |-> NaN, samp |-> NaN]
          ELSE IF d = -1 THEN [kind |-> "throw", line |-> 0, samp |-> 0]
          ELSE IF d < -1 THEN [kind |-> "other", line |-> 0, samp |-> 0]
          ELSE [kind |-> "ok",
                line |-> P[2] + WeightedSum(positions, Len(positions)),
                samp |-> P[1] + WeightedSum(quats, Len(quats))]

\* CameraModel::point_to_pixel of the camera opt.camera_models[icam], which
\* wraps the same linescan model
point_to_pixel(cam, P) ==
  LET r == groundToImage(cam.m_quaternions, cam.m_positions, P)
  IN IF r.kind = "ok" THEN [kind |-> "ok", pix |-> fromCsmPixel(r)]
     ELSE [kind |-> r.kind, pix |-> <<0, 0>>]

\* ---------------------------------------------------------------------
\* State
\* ---------------------------------------------------------------------
VARIABLES
  pc,                       \* position in run_jitter_solve
  err,                      \* the error that ended the run, or "none"
  mt,                       \* per camera: session->supports_multi_threading()
  num_threads,              \* opt.num_threads
  cams,                     \* ls_cams: the linescan models
  tri_points_vec,           \* flat array of the tie points' coordinates
  crn,                      \* per camera, its observations in list order
  pre_cams, pre_tri,        \* the cameras and tie points before the solve
  i,                        \* loop index of load_cameras
  single_threaded_cameras,  \* opt.single_threaded_cameras
  icam, fiter,              \* loop position of the screen and of the set-up
  outliers,                 \* std::set<int> outliers
  problem,                  \* the residual blocks added to ceres::Problem
  eval_threads,             \* eval_options.num_threads, 0 before it is set
  solve_threads,            \* options.num_threads, 0 before it is set
  residuals,                \* the vector filled by compute_residuals
  lastEval,                 \* the solver's last residual evaluation
  win,                      \* the locals of the last window computation
  iter,                     \* solver iterations done
  work,                     \* problem.Evaluate on several threads: per block, its stage
  race,                     \* a write of shared camera state met another access
  cov,                      \* the state of the covariance propagation (Covariance.cc)
  prism,                    \* the state of prism2asp (prism2asp.cc)
  termination               \* summary.termination_type, "none" before

\* what the run never writes
inputs == <<mt, num_threads, crn, pre_cams, pre_tri>>

\* the state of the worker threads of problem.Evaluate
pool == <<work, race>>

\* the state of the other tools of the repository, which the jitter solver
\* does not touch
other_tools == <<cov, prism>>

\* the state of the jitter solver, which the other tools do not touch
jitter == <<pc, err, inputs, pool, cams, tri_points_vec, i,
            single_threaded_cameras, icam, fiter, outliers, problem, win,
            eval_threads, solve_threads, residuals, lastEval, iter,
            termination>>

vars == <<jitter, other_tools>>

\* ---------------------------------------------------------------------
\* Inputs: cameras, tie points and observations
\* ---------------------------------------------------------------------

\* A linescan model with nQ quaternion and nP position samples; sample
\* values are distinct, off shifts the positions of one camera against
\* another's.
MkCam(start, rate, nQ, t0Q, dtQ, nP, t0P, dtP, off) ==
  [startTime |-> start, intTime |-> rate,
   m_quaternions |-> [k \in 1..(NUM_QUAT_PARAMS * nQ) |-> k],
   m_t0Quat |-> t0Q, m_dtQuat |-> dtQ,
   m_positions |-> [k \in 1..(NUM_XYZ_PARAMS * nP) |-> k + off],
   m_t0Ephem |-> t0P, m_dtEphem |-> dtP]

\* a camera with two samples of each kind, starting at time 0
BaseCam(off) == MkCam(0, 1, 2, 0, 10, 2, 0, 10, off)

\* The tie point of height z that camera cam projects onto pixel pix
\* (when it projects it at all)
PointAt(cam, pix, z) ==
  <<pix[1] - WeightedSum(cam.m_quaternions, Len(cam.m_quaternions)),
    pix[2] - WeightedSum(cam.m_positions, Len(cam.m_positions)),
    z>>

\* the height at which camera cam projects a point to a defined pixel
GoodZ(cam) == IF Len(cam.m_positions) = 0 THEN 0 ELSE cam.m_positions[3] + 1

\* the pixel the pre-solve camera gives point P, <<0, 0>> when it gives none
NominalPix(cam, P) ==
  LET r == point_to_pixel(cam, P)
  IN IF r.kind = "ok" /\ r.pix[1] # NaN THEN r.pix ELSE <<0, 0>>

RECURSIVE Flatten(_)
Flatten(pts) == IF pts = <<>> THEN <<>> ELSE Head(pts) \o Flatten(Tail(pts))

\* Cameras of every thread-safety, one consistent tie point seen by all
LoadScenarios ==
  {LET c == BaseCam(0)
       P == PointAt(c, <<0, 0>>, GoodZ(c))
   IN [mt |-> m, num_threads |-> t,
       cams |-> [k \in 1..Len(m) |-> c],
       tri |-> P,
       crn |-> [k \in 1..Len(m) |-> <<[m_point_id |-> 0, m_location |-> <<0, 0>>]>>]]
   : m \in UNION {[1..n -> BOOLEAN] : n \in 1..MaxCams}, t \in 1..MaxThreads}

\* pixel offsets of an observation from the nominal projection: of norm
\* exactly max_init_reproj_error, and just above it
ScreenOffsets == {<<3, 4>>, <<3, 5>>}

\* the two cameras of the screened networks, the second's positions shifted
\* by one against the first's
ScreenCams == <<BaseCam(0), BaseCam(1)>>

\* heights of the tie points of the screened networks: camera k (k = 1, 2)
\* gives a not-a-number pixel at height 2 + k, throws below it and projects
\* above it
ScreenHeights == 3..(3 + Len(ScreenCams))

\* Networks of NumPts tie points, numbered by non-decreasing height, where each
\* of the two cameras sees up to
\* MaxObs of them, listed by increasing point id, each observation at one
\* of the offsets
ScreenScenarios ==
  {LET pts == [p \in 1..NumPts |-> PointAt(ScreenCams[1], <<0, 0>>, zs[p])]
   IN [mt |-> [k \in 1..Len(ScreenCams) |-> TRUE], num_threads |-> MaxThreads,
       cams |-> ScreenCams,
       tri |-> Flatten(pts),
       crn |-> [k \in 1..Len(ScreenCams) |->
                 [j \in 1..Len(obs[k]) |->
                   LET p == obs[k][j][1]
                       nom == NominalPix(ScreenCams[k], pts[p + 1])
                   IN [m_point_id |-> p,
                       m_location |-> <<nom[1] + obs[k][j][2][1],
                                        nom[2] + obs[k][j][2][2]>>]]]]
   : zs \in {z \in [1..NumPts -> ScreenHeights] :
              \A a, b \in 1..NumPts : a < b => z[a] <= z[b]},
     obs \in [1..Len(ScreenCams) ->
               {s \in SeqsOfDistinct((0..(NumPts - 1)) \X ScreenOffsets, MaxObs) :
                  Increasing([j \in 1..Len(s) |-> s[j][1]])}]}

\* sample counts, start times and steps of the trajectories, and the image
\* rows of the observations, of the window scenarios
WindowCounts == {0, 1, 2, MaxSamples}

WindowT0s == {0, 80}

WindowDts == {7, 10}

WindowLines == {0, 3, 40, 55}

\* Two cameras with the same trajectory sampling, the second acquiring its
\* rows in decreasing time order, one tie point both see at row L
WindowScenarios ==
  {LET c1 == MkCam(0, 1, nQ, t0, dtQ, nP, t0, dtP, 0)
       c2 == MkCam(100, -1, nQ, t0, dtQ, nP, t0, dtP, 0)
       P == PointAt(c1, <<0, L>>, GoodZ(c1))
   IN [mt |-> <<TRUE, TRUE>>, num_threads |-> MaxThreads,
       cams |-> <<c1, c2>>,
       tri |-> P,
       crn |-> [k \in 1..2 |-> <<[m_point_id |-> 0, m_location |-> <<0, L>>]>>]]
   : nQ \in WindowCounts, nP \in WindowCounts, t0 \in WindowT0s,
     dtQ \in WindowDts, dtP \in WindowDts, L \in WindowLines}

\* the image rows of the tie points of the networks below: point p (p = 1,
\* 2, ...) is seen at the first row when p is odd, at the second otherwise
NetworkRows == <<0, 55>>

\* an observation of the networks below: none, or one at an offset
NetworkObs == {<<>>} \cup {<<o>> : o \in ScreenOffsets}

\* Two cameras with trajectories of MaxSamples samples, quaternions and
\* positions sampled at different steps, and NumPts tie points that each
\* camera sees or not, at a good or at a bad offset from the projection
NetworkScenarios ==
  {LET c == MkCam(0, 1, MaxSamples, 0, 10, MaxSamples, 0, 7, 0)
       row(p) == NetworkRows[((p - 1) % Len(NetworkRows)) + 1]
       pts == [p \in 1..NumPts |-> PointAt(c, <<0, row(p)>>, GoodZ(c))]
       seen(k) == {p \in 1..NumPts : obs[k][p] # <<>>}
       nth(k, j) == CHOOSE p \in seen(k) :
                      Cardinality({q \in seen(k) : q < p}) = j - 1
   IN [mt |-> <<TRUE, TRUE>>, num_threads |-> MaxThreads,
       cams |-> <<c, c>>,
       tri |-> Flatten(pts),
       crn |-> [k \in 1..2 |->
                 [j \in 1..Cardinality(seen(k)) |->
                    LET p == nth(k, j)
                    IN [m_point_id |-> p - 1,
                        m_location |-> <<obs[k][p][1][1],
                                         row(p) + obs[k][p][1][2]>>]]]]
   : obs \in [1..2 -> [1..NumPts -> NetworkObs]]}

\* the locals of the window computation before any was made
NoWindows == [set |-> FALSE]

\* the record of a residual evaluation before any was made
NoEval == [ret |-> "none"]

\* the covariance propagation when it is not run
CovIdle == [pc |-> "idle"]

\* prism2asp when it is not run
PrismIdle == [pc |-> "idle"]

\* The state of the jitter solver after handle_arguments, on the inputs of
\* scenario s
InitJitter(s) ==
  /\ pc = "load"
  /\ err = "none"
  /\ mt = s.mt
  /\ num_threads = s.num_threads
  /\ cams = s.cams
  /\ tri_points_vec = s.tri
  /\ crn = s.crn
  /\ pre_cams = s.cams
  /\ pre_tri = s.tri
  /\ i = 0
  /\ single_threaded_cameras = FALSE
  /\ icam = 0
  /\ fiter = 0
  /\ outliers = {}
  /\ problem = <<>>
  /\ win = NoWindows
  /\ eval_threads = 0
  /\ solve_threads = 0
  /\ residuals = <<>>
  /\ lastEval = NoEval
  /\ work = <<>>
  /\ race = FALSE
  /\ iter = 0
  /\ termination = "none"

\* a run of the jitter solver on scenario s
InitOn(s) == InitJitter(s) /\ cov = CovIdle /\ prism = PrismIdle

InitLoad == \E s \in LoadScenarios : InitOn(s)

InitScreen == \E s \in ScreenScenarios : InitOn(s)

InitWindow == \E s \in WindowScenarios : InitOn(s)

InitNetwork == \E s \in NetworkScenarios : InitOn(s)

Init == InitLoad \/ InitScreen \/ InitWindow \/ InitNetwork

\* ---------------------------------------------------------------------
\* load_cameras
\* ---------------------------------------------------------------------
num_cameras == Len(mt)

\* load_camera: the flag of the camera just loaded
load_camera(k) == ~ At(mt, k)

\* the flag after the loop body has run for camera k
LoadFlag(flag, k) == load_camera(k)

\* one iteration of the loop of load_cameras
LoadCamera ==
  /\ pc = "load"
  /\ i < num_cameras
  /\ single_threaded_cameras' = LoadFlag(single_threaded_cameras, i)
  /\ i' = i + 1
  /\ UNCHANGED <<pc, err, inputs, other_tools, pool, cams, tri_points_vec, icam,
                 fiter, outliers, problem, win, eval_threads, solve_threads,
                 residuals, lastEval, iter, termination>>

\* the loop is over; run_jitter_solve checks the cameras and the network
CheckNetwork ==
  /\ pc = "load"
  /\ i = num_cameras
  /\ IF num_cameras < 2
       THEN pc' = "failed" /\ err' = "Expecting at least two input cameras."
     ELSE IF Len(tri_points_vec) \div NUM_XYZ_PARAMS = 0
       THEN pc' = "failed" /\ err' = "No triangulated ground points were found."
     ELSE IF Len(crn) # num_cameras
       THEN pc' = "failed" /\ err' = "Book-keeping error, the size of CameraRelationNetwork must equal the number of images."
     ELSE pc' = "screen" /\ err' = err
  /\ UNCHANGED <<inputs, other_tools, pool, cams, tri_points_vec, i,
                 single_threaded_cameras, icam, fiter, outliers, problem, win,
                 eval_threads, solve_threads, residuals, lastEval, iter,
                 termination>>

\* ---------------------------------------------------------------------
\* The initial outlier screen
\* ---------------------------------------------------------------------
\* tri_points + ipt * NUM_XYZ_PARAMS, read as a point
TriPoint(tri, ipt) == [c \in 1..NUM_XYZ_PARAMS |-> At(tri, ipt * NUM_XYZ_PARAMS + c - 1)]

\* the comparison made strict
is_goodStrict(pix, observation) ==
  /\ NormLeq(Sub(pix[1], observation[1]), Sub(pix[2], observation[2]),
             max_init_reproj_error)
  /\ (pix[1] - observation[1]) * (pix[1] - observation[1])
       + (pix[2] - observation[2]) * (pix[2] - observation[2])
     # max_init_reproj_error * max_init_reproj_error

\* bool is_good = (norm_2(pix - observation) <= opt.max_init_reproj_error)
is_good(pix, observation) ==
  NormLeq(Sub(pix[1], observation[1]), Sub(pix[2], observation[2]),
          max_init_reproj_error)

\* the screen with flags flipped instead of set, without the skip of the
\* tie points already flagged
ScreenObservationFlip(outl, cam, tri, f) ==
  LET ipt == f.m_point_id
      r == point_to_pixel(cam, TriPoint(tri, ipt))
  IN IF r.kind = "ok" /\ is_good(r.pix, f.m_location) THEN outl
     ELSE IF ipt \in outl THEN outl \ {ipt} ELSE outl \cup {ipt}

\* the screen flagging only what throws
ScreenObservationNoNorm(outl, cam, tri, f) ==
  LET ipt == f.m_point_id
      r == point_to_pixel(cam, TriPoint(tri, ipt))
  IN IF ipt \in outl THEN outl
     ELSE IF r.kind = "ok" THEN outl
     ELSE outl \cup {ipt}

\* the screen where the last observation of a tie point decides: a good
\* observation takes the point out of the set
ScreenObservationLastWins(outl, cam, tri, f) ==
  LET ipt == f.m_point_id
      r == point_to_pixel(cam, TriPoint(tri, ipt))
  IN IF r.kind = "ok" /\ is_good(r.pix, f.m_location) THEN outl \ {ipt}
     ELSE outl \cup {ipt}

\* The body of the screen's loop for observation f of camera cam: the
\* outlier set it leaves
ScreenObservation(outl, cam, tri, f) ==
  LET ipt == f.m_point_id
      r == point_to_pixel(cam, TriPoint(tri, ipt))
  IN IF ipt \in outl THEN outl
     ELSE IF r.kind = "ok"
       THEN (IF is_good(r.pix, f.m_location) THEN outl ELSE outl \cup {ipt})
     ELSE outl \cup {ipt}

\* one iteration of the inner loop of the screen
ScreenStep ==
  /\ pc = "screen"
  /\ icam < Len(crn)
  /\ fiter < Len(At(crn, icam))
  /\ outliers' = ScreenObservation(outliers, At(cams, icam), tri_points_vec,
                                   At(At(crn, icam), fiter))
  /\ fiter' = fiter + 1
  /\ UNCHANGED <<pc, err, inputs, other_tools, pool, cams, tri_points_vec, i,
                 single_threaded_cameras, icam, problem, win, eval_threads,
                 solve_threads, residuals, lastEval, iter, termination>>

\* the inner loop of the screen or of the set-up is over: next camera
NextCamera ==
  /\ pc \in {"screen", "build"}
  /\ icam < Len(crn)
  /\ fiter = Len(At(crn, icam))
  /\ icam' = icam + 1
  /\ fiter' = 0
  /\ UNCHANGED <<pc, err, inputs, other_tools, pool, cams, tri_points_vec, i,
                 single_threaded_cameras, outliers, problem, win, eval_threads,
                 solve_threads, residuals, lastEval, iter, termination>>

\* the outer loop of the screen is over
ScreenDone ==
  /\ pc = "screen"
  /\ icam = Len(crn)
  /\ pc' = "build"
  /\ icam' = 0
  /\ fiter' = 0
  /\ UNCHANGED <<err, inputs, other_tools, pool, cams, tri_points_vec, i,
                 single_threaded_cameras, outliers, problem, win, eval_threads,
                 solve_threads, residuals, lastEval, iter, termination>>

\* ---------------------------------------------------------------------
\* The observation windows and the residual blocks
\* ---------------------------------------------------------------------
\* double line_extra = opt.max_init_reproj_error + 5.0
line_extra == max_init_reproj_error + 5

\* time1 and time2: the imaging times of the two rows of the guard band
GuardTimes(cam, observation) ==
  <<getImageTime(cam, toCsmPixel(<<observation[1], observation[2] - line_extra>>)),
    getImageTime(cam, toCsmPixel(<<observation[1], observation[2] + line_extra>>))>>

\* static_cast<int>((time - t0) / dt)
SampleIndex(time, t0, dt) == TruncDiv(time - t0, dt)

\* std::min(index1, index2) - numPerObs / 2 + 1
BegIndex(index1, index2, numPerObs) == Min(index1, index2) - numPerObs \div 2 + 1

\* an end index that leaves as many samples above the larger index as
\* BegIndex leaves below the smaller one
EndIndexSymmetric(index1, index2, numPerObs) == Max(index1, index2) + numPerObs \div 2

\* std::max(index1, index2) + numPerObs / 2 + 1
EndIndex(index1, index2, numPerObs) == Max(index1, index2) + numPerObs \div 2 + 1

\* the window as computed, without the clamping to [0, num)
WindowUnclamped(time1, time2, t0, dt, num, numPerObs) ==
  LET index1 == SampleIndex(time1, t0, dt)
      index2 == SampleIndex(time2, t0, dt)
      b == BegIndex(index1, index2, numPerObs)
      e == EndIndex(index1, index2, numPerObs)
  IN [index1 |-> index1, index2 |-> index2, rawBeg |-> b, rawEnd |-> e,
      beg |-> b, end |-> Min(e, num)]

\* the window of one sequence: the two indices, the range before the
\* clamping (rawBeg, rawEnd) and after it (beg, end)
Window(time1, time2, t0, dt, num, numPerObs) ==
  LET index1 == SampleIndex(time1, t0, dt)
      index2 == SampleIndex(time2, t0, dt)
      b == BegIndex(index1, index2, numPerObs)
      e == EndIndex(index1, index2, numPerObs)
  IN [index1 |-> index1, index2 |-> index2, rawBeg |-> b, rawEnd |-> e,
      beg |-> Max(0, b), end |-> Min(e, num)]

numQuat(cam) == Len(cam.m_quaternions) \div NUM_QUAT_PARAMS

numPos(cam) == Len(cam.m_positions) \div NUM_XYZ_PARAMS

QuatWindow(cam, observation) ==
  LET t == GuardTimes(cam, observation)
  IN Window(t[1], t[2], cam.m_t0Quat, cam.m_dtQuat, numQuat(cam), numQuatPerObs)

PosWindow(cam, observation) ==
  LET t == GuardTimes(cam, observation)
  IN Window(t[1], t[2], cam.m_t0Ephem, cam.m_dtEphem, numPos(cam), numPosPerObs)

\* an emptiness test that lets beg = end pass
EmptyWindowStrict(beg, end) == beg > end

\* if (begIndex >= endIndex) // Must not happen
EmptyWindow(beg, end) == beg >= end

\* pixelReprojectionError::Create: the sizes of the parameter blocks of the
\* cost function, in the order of their declaration
Create(begQuatIndex, endQuatIndex, begPosIndex, endPosIndex) ==
  [it \in 1..(endQuatIndex - begQuatIndex) |-> NUM_QUAT_PARAMS]
  \o [it \in 1..(endPosIndex - begPosIndex) |-> NUM_XYZ_PARAMS]
  \o <<NUM_XYZ_PARAMS>>

\* vars with the position pointers taken over the quaternion window
VarsQuatRangeForPos(c, ipt, begQuatIndex, endQuatIndex, begPosIndex, endPosIndex) ==
  [it \in 1..(endQuatIndex - begQuatIndex) |->
     [arr |-> "quat", cam |-> c, off |-> (begQuatIndex + it - 1) * NUM_QUAT_PARAMS]]
  \o [it \in 1..(endQuatIndex - begQuatIndex) |->
     [arr |-> "pos", cam |-> c, off |-> (begQuatIndex + it - 1) * NUM_XYZ_PARAMS]]
  \o <<[arr |-> "tri", cam |-> -1, off |-> ipt * NUM_XYZ_PARAMS]>>

\* vars with the quaternion pointers counted from the first sample of the
\* camera instead of the first one of the window
VarsFromFirstSample(c, ipt, begQuatIndex, endQuatIndex, begPosIndex, endPosIndex) ==
  [it \in 1..(endQuatIndex - begQuatIndex) |->
     [arr |-> "quat", cam |-> c, off |-> (it - 1) * NUM_QUAT_PARAMS]]
  \o [it \in 1..(endPosIndex - begPosIndex) |->
     [arr |-> "pos", cam |-> c, off |-> (begPosIndex + it - 1) * NUM_XYZ_PARAMS]]
  \o <<[arr |-> "tri", cam |-> -1, off |-> ipt * NUM_XYZ_PARAMS]>>

\* std::vector<double*> vars: pointers into the camera's arrays and into
\* tri_points, as (array, camera, offset)
Vars(c, ipt, begQuatIndex, endQuatIndex, begPosIndex, endPosIndex) ==
  [it \in 1..(endQuatIndex - begQuatIndex) |->
     [arr |-> "quat", cam |-> c, off |-> (begQuatIndex + it - 1) * NUM_QUAT_PARAMS]]
  \o [it \in 1..(endPosIndex - begPosIndex) |->
     [arr |-> "pos", cam |-> c, off |-> (begPosIndex + it - 1) * NUM_XYZ_PARAMS]]
  \o <<[arr |-> "tri", cam |-> -1, off |-> ipt * NUM_XYZ_PARAMS]>>

\* the residual block of observation f of camera c, with windows q and p
ResidualBlock(c, f, q, p) ==
  [m_observation |-> f.m_location, m_ls_model |-> c,
   m_begQuatIndex |-> q.beg, m_endQuatIndex |-> q.end,
   m_begPosIndex |-> p.beg, m_endPosIndex |-> p.end,
   sizes |-> Create(q.beg, q.end, p.beg, p.end),
   vars |-> Vars(c, f.m_point_id, q.beg, q.end, p.beg, p.end)]

\* the locals of the loop body once the windows are computed; the position
\* window is not computed when the quaternion window is empty
Windows(c, fi, f, cam) ==
  LET t == GuardTimes(cam, f.m_location)
      q == QuatWindow(cam, f.m_location)
  IN [set |-> TRUE, icam |-> c, fiter |-> fi, ipt |-> f.m_point_id,
      time1 |-> t[1], time2 |-> t[2], quat |-> q,
      posSet |-> ~ EmptyWindow(q.beg, q.end),
      pos |-> PosWindow(cam, f.m_location)]

\* one iteration of the inner loop of the set-up of the cost function
BuildStep ==
  /\ pc = "build"
  /\ icam < Len(crn)
  /\ fiter < Len(At(crn, icam))
  /\ LET f == At(At(crn, icam), fiter)
         w == Windows(icam, fiter, f, At(cams, icam))
     IN IF f.m_point_id \in outliers
          THEN /\ fiter' = fiter + 1
               /\ UNCHANGED <<pc, err, problem, win>>
        ELSE IF EmptyWindow(w.quat.beg, w.quat.end)
                \/ EmptyWindow(w.pos.beg, w.pos.end)
          THEN /\ pc' = "failed"
               /\ err' = "Book-keeping error for pixel"
               /\ win' = w
               /\ UNCHANGED <<fiter, problem>>
        ELSE /\ problem' = Append(problem, ResidualBlock(icam, f, w.quat, w.pos))
             /\ win' = w
             /\ fiter' = fiter + 1
             /\ UNCHANGED <<pc, err>>
  /\ UNCHANGED <<inputs, other_tools, pool, cams, tri_points_vec, i,
                 single_threaded_cameras, icam, outliers, eval_threads,
                 solve_threads, residuals, lastEval, iter, termination>>

\* eval_options.num_threads of compute_residuals
EvalNumThreads(single, n) == IF single THEN 1 ELSE n

\* options.num_threads of the solve
SolveNumThreads(single, n) == IF single THEN 1 ELSE n

\* the set-up is over; the solver's options are set
BuildDone ==
  /\ pc = "build"
  /\ icam = Len(crn)
  /\ pc' = "residuals"
  /\ solve_threads' = SolveNumThreads(single_threaded_cameras, num_threads)
  /\ UNCHANGED <<err, inputs, other_tools, pool, cams, tri_points_vec, i,
                 single_threaded_cameras, icam, fiter, outliers, problem, win,
                 eval_threads, residuals, lastEval, iter, termination>>

\* ---------------------------------------------------------------------
\* pixelReprojectionError::operator()
\* ---------------------------------------------------------------------
\* the index in parameters of the block of quaternion qi: qi + shift - beg
QuatParam(b, qi) == qi + 0 - b.m_begQuatIndex

\* the index of the position block without the shift past the quaternions
PosParamNoShift(b, pi) == pi - b.m_begPosIndex

\* the index in parameters of the block of position pi, after the shift
\* over the quaternions
PosParam(b, pi) == pi + (b.m_endQuatIndex - b.m_begQuatIndex) - b.m_begPosIndex

\* the index in parameters of the block of the tie point
PointParam(b) ==
  (b.m_endQuatIndex - b.m_begQuatIndex) + (b.m_endPosIndex - b.m_begPosIndex)

\* cam.m_quaternions of the local copy after the first loop
CopyQuaternions(b, model, parameters) ==
  [k \in 1..Len(model.m_quaternions) |->
     LET qi == (k - 1) \div NUM_QUAT_PARAMS
         coord == (k - 1) % NUM_QUAT_PARAMS
     IN IF qi >= b.m_begQuatIndex /\ qi < b.m_endQuatIndex
          THEN At(At(parameters, QuatParam(b, qi)), coord)
        ELSE model.m_quaternions[k]]

\* cam.m_positions of the local copy after the second loop
CopyPositions(b, model, parameters) ==
  [k \in 1..Len(model.m_positions) |->
     LET pi == (k - 1) \div NUM_XYZ_PARAMS
         coord == (k - 1) % NUM_XYZ_PARAMS
     IN IF pi >= b.m_begPosIndex /\ pi < b.m_endPosIndex
          THEN At(At(parameters, PosParam(b, pi)), coord)
        ELSE model.m_positions[k]]

\* the two loops written into the shared model instead of a copy of it
OverwriteInPlace(b, model, parameters) ==
  LET cam == [model EXCEPT
                !.m_quaternions = CopyQuaternions(b, model, parameters),
                !.m_positions = CopyPositions(b, model, parameters)]
  IN [model |-> cam, cam |-> cam, writes_model |-> TRUE]

\* UsgsAstroLsSensorModel cam = *m_ls_model, and the two loops that write
\* the candidate values into cam: the shared model and the local copy after
\* them, and whether the shared model was written
Overwrite(b, model, parameters) ==
  [model |-> model,
   cam |-> [model EXCEPT
              !.m_quaternions = CopyQuaternions(b, model, parameters),
              !.m_positions = CopyPositions(b, model, parameters)],
   writes_model |-> FALSE]

\* The rest of the call once the local copy o.cam is written: the
\* projection and the residuals.  ret is "true" when the functor returns
\* true, "exception" when an exception leaves it (the residuals are then
\* not written); model is the shared model and cam the local copy when the
\* call ends
Project(b, o, parameters) ==
  LET P == [c \in 1..NUM_XYZ_PARAMS |-> At(At(parameters, PointParam(b)), c - 1)]
      imagePt == groundToImage(o.cam.m_quaternions, o.cam.m_positions, P)
      pix == fromCsmPixel(imagePt)
  IN IF imagePt.kind = "ok"
       THEN [ret |-> "true",
             residuals |-> <<Sub(pix[1], b.m_observation[1]),
                             Sub(pix[2], b.m_observation[2])>>,
             model |-> o.model, cam |-> o.cam]
     ELSE IF imagePt.kind = "throw"
       THEN [ret |-> "true",
             residuals |-> <<g_big_pixel_value, g_big_pixel_value>>,
             model |-> o.model, cam |-> o.cam]
     ELSE [ret |-> "exception", residuals |-> <<>>,
           model |-> o.model, cam |-> o.cam]

\* One call of the functor of block b on the shared model
Evaluate(b, model, parameters) ==
  Project(b, Overwrite(b, model, parameters), parameters)

\* ---------------------------------------------------------------------
\* compute_residuals and the solve
\* ---------------------------------------------------------------------
\* the n doubles at pointer ptr
Deref(cs, tri, ptr, n) ==
  LET a == IF ptr.arr = "quat" THEN At(cs, ptr.cam).m_quaternions
           ELSE IF ptr.arr = "pos" THEN At(cs, ptr.cam).m_positions
           ELSE tri
  IN [c \in 1..n |-> At(a, ptr.off + c - 1)]

\* The parameter values the solver passes to block b: the current value of
\* each registered parameter block, the first coordinate of block j moved
\* by k * j and the height of the tie point by dz
Candidate(b, cs, tri, k, dz) ==
  [j \in 1..Len(b.vars) |->
     LET v == Deref(cs, tri, b.vars[j], b.sizes[j])
     IN [c \in 1..Len(v) |->
           v[c] + (IF c = 1 THEN k * j ELSE 0)
                + (IF j = Len(b.vars) /\ c = NUM_XYZ_PARAMS THEN dz ELSE 0)]]

\* the candidates tried: the ramps, and the heights at which the
\* projection yields not-a-number, throws, and throws something else
Candidates == ((0..MaxPerturb) \X {0}) \cup ({0} \X {-1, -2, -3})

RECURSIVE EvaluateAll(_, _, _, _)
\* problem.Evaluate at the current values: the residuals of the blocks n..,
\* or <<"exception">> when an evaluation lets an exception out
EvaluateAll(blocks, cs, tri, n) ==
  IF n > Len(blocks) THEN <<>>
  ELSE LET b == blocks[n]
           e == Evaluate(b, At(cs, b.m_ls_model), Candidate(b, cs, tri, 0, 0))
           rest == EvaluateAll(blocks, cs, tri, n + 1)
       IN IF e.ret = "exception" \/ rest = <<"exception">>
            THEN <<"exception">>
          ELSE e.residuals \o rest

\* compute_residuals up to the call of problem.Evaluate; with one thread the
\* blocks are evaluated one after the other, with more they are handed to
\* the worker threads
ComputeResiduals ==
  /\ pc = "residuals"
  /\ eval_threads' = EvalNumThreads(single_threaded_cameras, num_threads)
  /\ IF eval_threads' = 1
       THEN LET r == EvaluateAll(problem, cams, tri_points_vec, 1)
            IN /\ IF r = <<"exception">>
                    THEN pc' = "failed" /\ err' = "exception" /\ residuals' = residuals
                  ELSE pc' = "solve" /\ err' = err /\ residuals' = r
               /\ work' = work
     ELSE /\ pc' = "evaluate"
          /\ work' = [n \in 1..Len(problem) |-> [st |-> "pending"]]
          /\ UNCHANGED <<err, residuals>>
  /\ UNCHANGED <<inputs, other_tools, race, cams, tri_points_vec, i,
                 single_threaded_cameras, icam, fiter, outliers, problem, win,
                 solve_threads, lastEval, iter, termination>>

\* the blocks a worker thread is evaluating
InFlight == {n \in 1..Len(work) : work[n].st \in {"copying", "copied"}}

\* a free worker thread takes block n and starts to copy its camera model
EvalBegin(n) ==
  /\ pc = "evaluate"
  /\ work[n].st = "pending"
  /\ Cardinality(InFlight) < eval_threads
  /\ work' = [work EXCEPT ![n] = [st |-> "copying"]]
  /\ UNCHANGED <<pc, err, inputs, other_tools, race, cams, tri_points_vec, i,
                 single_threaded_cameras, icam, fiter, outliers, problem, win,
                 eval_threads, solve_threads, residuals, lastEval, iter,
                 termination>>

\* the thread of block n ends the copy and writes the values of the
\* parameter blocks over the windows; a write of the shared model while
\* another thread copies the same model is a race
EvalCopy(n) ==
  /\ pc = "evaluate"
  /\ work[n].st = "copying"
  /\ LET b == problem[n]
         parameters == Candidate(b, cams, tri_points_vec, 0, 0)
         o == Overwrite(b, At(cams, b.m_ls_model), parameters)
     IN /\ work' = [work EXCEPT ![n] = [st |-> "copied", o |-> o,
                                        parameters |-> parameters]]
        /\ cams' = [cams EXCEPT ![b.m_ls_model + 1] = o.model]
        /\ race' = (race \/ (o.writes_model
                               /\ \E m \in InFlight \ {n} :
                                    /\ work[m].st = "copying"
                                    /\ problem[m].m_ls_model = b.m_ls_model))
  /\ UNCHANGED <<pc, err, inputs, other_tools, tri_points_vec, i,
                 single_threaded_cameras, icam, fiter, outliers, problem, win,
                 eval_threads, solve_threads, residuals, lastEval, iter,
                 termination>>

\* the thread of block n projects with its copy and stores the residuals
EvalEnd(n) ==
  /\ pc = "evaluate"
  /\ work[n].st = "copied"
  /\ LET e == Project(problem[n], work[n].o, work[n].parameters)
     IN work' = [work EXCEPT ![n] = [st |-> "done", ret |-> e.ret,
                                     residuals |-> e.residuals]]
  /\ UNCHANGED <<pc, err, inputs, other_tools, race, cams, tri_points_vec, i,
                 single_threaded_cameras, icam, fiter, outliers, problem, win,
                 eval_threads, solve_threads, residuals, lastEval, iter,
                 termination>>

RECURSIVE Gather(_, _)
\* the residuals of the blocks n.. in the order of the blocks
Gather(w, n) ==
  IF n > Len(w) THEN <<>> ELSE w[n].residuals \o Gather(w, n + 1)

\* every block is evaluated: problem.Evaluate returns
EvalJoin ==
  /\ pc = "evaluate"
  /\ \A n \in 1..Len(work) : work[n].st = "done"
  /\ IF \E n \in 1..Len(work) : work[n].ret = "exception"
       THEN pc' = "failed" /\ err' = "exception" /\ residuals' = residuals
     ELSE pc' = "solve" /\ err' = err /\ residuals' = Gather(work, 1)
  /\ work' = <<>>
  /\ UNCHANGED <<inputs, other_tools, race, cams, tri_points_vec, i,
                 single_threaded_cameras, icam, fiter, outliers, problem, win,
                 eval_threads, solve_threads, lastEval, iter, termination>>

\* the solver evaluates residual block n at a candidate; the record kept of
\* the call has the shared model before it (shared), the local copy (cam)
\* and the candidate passed
SolverEvaluate(n, k, dz) ==
  /\ pc = "solve"
  /\ lastEval.ret = "none"
  /\ n \in 1..Len(problem)
  /\ LET b == problem[n]
         parameters == Candidate(b, cams, tri_points_vec, k, dz)
         e == Evaluate(b, At(cams, b.m_ls_model), parameters)
     IN /\ lastEval' = [ret |-> e.ret, residuals |-> e.residuals,
                        block |-> n, parameters |-> parameters,
                        k |-> k, dz |-> dz,
                        shared |-> At(cams, b.m_ls_model), cam |-> e.cam]
        /\ cams' = [cams EXCEPT ![b.m_ls_model + 1] = e.model]
        /\ IF e.ret = "exception"
             THEN pc' = "failed" /\ err' = "exception"
           ELSE UNCHANGED <<pc, err>>
  /\ UNCHANGED <<inputs, other_tools, pool, tri_points_vec, i,
                 single_threaded_cameras, icam, fiter, outliers, problem, win,
                 eval_threads, solve_threads, residuals, iter, termination>>

\* the parameter blocks registered with the problem
Registered(blocks) ==
  UNION {{blocks[n].vars[j] : j \in 1..Len(blocks[n].vars)} : n \in 1..Len(blocks)}

\* array a (of kind arr, of camera c) after a step of the solver: the first
\* coordinate of every registered parameter block moves by 1
StepArray(blocks, arr, c, a) ==
  [k \in 1..Len(a) |->
     IF [arr |-> arr, cam |-> c, off |-> k - 1] \in Registered(blocks)
       THEN a[k] + 1 ELSE a[k]]

\* the solver ends an iteration and writes the parameter blocks in place
SolverStep ==
  /\ pc = "solve"
  /\ lastEval.ret = "true"
  /\ iter < MaxIters
  /\ iter' = iter + 1
  /\ cams' = [c \in 1..Len(cams) |->
               [cams[c] EXCEPT
                  !.m_quaternions = StepArray(problem, "quat", c - 1, @),
                  !.m_positions = StepArray(problem, "pos", c - 1, @)]]
  /\ tri_points_vec' = StepArray(problem, "tri", -1, tri_points_vec)
  /\ lastEval' = NoEval
  /\ UNCHANGED <<pc, err, inputs, other_tools, pool, i, single_threaded_cameras,
                 icam, fiter, outliers, problem, win, eval_threads, solve_threads,
                 residuals, termination>>

\* summary.termination_type
TerminationTypes == {"CONVERGENCE", "NO_CONVERGENCE", "FAILURE"}

\* what run_jitter_solve writes to the log after ceres::Solve: the full
\* report always, one more line when the solver did not converge
SolveMessages(t) ==
  {"summary.FullReport()"}
  \cup (IF t = "NO_CONVERGENCE"
         THEN {"Found a valid solution, but did not reach the actual minimum."}
       ELSE {})

\* ceres::Solve returns; run_jitter_solve reports and returns
SolveEnd(t) ==
  /\ pc = "solve"
  /\ lastEval.ret # "exception"
  /\ termination' = t
  /\ lastEval' = NoEval
  /\ pc' = "done"
  /\ UNCHANGED <<err, inputs, other_tools, pool, cams, tri_points_vec, i,
                 single_threaded_cameras, icam, fiter, outliers, problem, win,
                 eval_threads, solve_threads, residuals, iter>>

Next ==
  \/ LoadCamera
  \/ CheckNetwork
  \/ ScreenStep
  \/ NextCamera
  \/ ScreenDone
  \/ BuildStep
  \/ BuildDone
  \/ ComputeResiduals
  \/ \E n \in 1..Len(work) : EvalBegin(n)
  \/ \E n \in 1..Len(work) : EvalCopy(n)
  \/ \E n \in 1..Len(work) : EvalEnd(n)
  \/ EvalJoin
  \/ \E n \in 1..Len(problem), c \in Candidates : SolverEvaluate(n, c[1], c[2])
  \/ SolverStep
  \/ \E t \in TerminationTypes : SolveEnd(t)

Spec == Init /\ [][Next]_vars

SpecLoad == InitLoad /\ [][Next]_vars

SpecScreen == InitScreen /\ [][Next]_vars

SpecWindow == InitWindow /\ [][Next]_vars

SpecNetwork == InitNetwork /\ [][Next]_vars

\* ---------------------------------------------------------------------
\* The screen as a whole
\* ---------------------------------------------------------------------
RECURSIVE ScreenCamera(_, _, _)
\* the inner loop of the screen from observation j of camera c on
ScreenCamera(outl, c, j) ==
  IF j > Len(crn[c]) THEN outl
  ELSE ScreenCamera(ScreenObservation(outl, pre_cams[c], pre_tri, crn[c][j]),
                    c, j + 1)

RECURSIVE ScreenAll(_, _)
\* the outer loop of the screen from camera c on, started on the set outl
ScreenAll(outl, c) ==
  IF c > Len(crn) THEN outl ELSE ScreenAll(ScreenCamera(outl, c, 1), c + 1)

\* ---------------------------------------------------------------------
\* Properties
\* ---------------------------------------------------------------------
num_tri_points == Len(pre_tri) \div NUM_XYZ_PARAMS

\* the screen has visited all cameras and observations
ScreenOver ==
  \/ pc \in {"build", "residuals", "evaluate", "solve", "done"}
  \/ pc = "failed" /\ err \in {"Book-keeping error for pixel", "exception"}

\* the squared pixel distance of observation f from the pixel pix
SquaredError(pix, f) ==
  (pix[1] - f.m_location[1]) * (pix[1] - f.m_location[1])
  + (pix[2] - f.m_location[2]) * (pix[2] - f.m_location[2])

\* observation f of camera c (counted from 1) fails to project with the
\* pre-solve camera, projects to not-a-number, or lies further than the
\* maximum from its projection
ObsBad(c, f) ==
  LET r == point_to_pixel(pre_cams[c], TriPoint(pre_tri, f.m_point_id))
  IN \/ r.kind # "ok"
     \/ r.pix[1] = NaN
     \/ r.pix[2] = NaN
     \/ SquaredError(r.pix, f) > max_init_reproj_error * max_init_reproj_error

ObsOf(p) == {<<c, j>> \in (1..Len(crn)) \X (1..MaxObs) :
               j <= Len(crn[c]) /\ crn[c][j].m_point_id = p}

PointBad(p) == \E o \in ObsOf(p) : ObsBad(o[1], crn[o[1]][o[2]])

\* the tie point of a residual block
BlockPoint(b) == b.vars[Len(b.vars)].off \div NUM_XYZ_PARAMS

AnySingleThreaded == \E k \in 1..Len(mt) : ~ mt[k]

\* C1: once load_cameras has loaded the list, if any camera of it (in any
\* position) does not support multi-threading, the single-threaded flag is
\* true and compute_residuals and the solve run with exactly 1 thread.
C1_SingleThreadedIfAny ==
  AnySingleThreaded =>
    /\ (pc # "load" \/ i = num_cameras) => single_threaded_cameras
    /\ eval_threads # 0 => eval_threads = 1
    /\ solve_threads # 0 => solve_threads = 1

\* C2: no residual block is in the problem for any observation of a tie
\* point that has a bad observation in some camera.
C2_NoBlockForBadPoint ==
  \A n \in 1..Len(problem) : ~ PointBad(BlockPoint(problem[n]))

\* a tie point with a good observation in the first camera and a bad one in
\* the second has been left out of a problem that has blocks
C2_Witness ==
  /\ pc = "solve"
  /\ Len(problem) > 0
  /\ \E p \in 0..(num_tri_points - 1) :
       /\ \E o \in ObsOf(p) : o[1] = 1 /\ ~ ObsBad(1, crn[1][o[2]])
       /\ \E o \in ObsOf(p) : o[1] = 2 /\ ObsBad(2, crn[2][o[2]])
       /\ \A n \in 1..Len(problem) : BlockPoint(problem[n]) # p

\* C3: after the screen the outlier set is exactly the set of the tie
\* points with at least one bad observation (failed projection,
\* not-a-number, or distance above the maximum; a distance equal to the
\* maximum is not bad), whatever the order of the observations.
C3_OutliersExact ==
  ScreenOver => outliers = {p \in 0..(num_tri_points - 1) : PointBad(p)}

\* after the screen a point with an observation exactly at the maximum is
\* not flagged, and a point whose only defect is a not-a-number projection is
C3_Witness ==
  /\ pc = "build"
  /\ \E p \in 0..(num_tri_points - 1) :
       /\ p \notin outliers
       /\ \E o \in ObsOf(p) :
            LET r == point_to_pixel(pre_cams[o[1]], TriPoint(pre_tri, p))
            IN SquaredError(r.pix, crn[o[1]][o[2]])
                 = max_init_reproj_error * max_init_reproj_error
  /\ \E p \in outliers :
       \A o \in ObsOf(p) :
         LET r == point_to_pixel(pre_cams[o[1]], TriPoint(pre_tri, p))
         IN ObsBad(o[1], crn[o[1]][o[2]]) => r.kind = "ok" /\ r.pix[1] = NaN

\* C4: the screen run again on the same network and cameras, started on the
\* outlier set of the first run, leaves the same outlier set.
C4_Idempotent == ScreenOver => ScreenAll(outliers, 1) = outliers

\* the first run has flagged some tie points and kept some observed ones
C4_Witness ==
  /\ pc = "build"
  /\ outliers # {}
  /\ \E p \in 0..(num_tri_points - 1) : p \notin outliers /\ ObsOf(p) # {}

\* the camera and the observation the last windows were computed for
WinCam == pre_cams[win.icam + 1]

WinObs == crn[win.icam + 1][win.fiter + 1].m_location

\* the imaging time of the observation itself
ObsTime(cam, observation) == getImageTime(cam, toCsmPixel(observation))

\* time lies between the first and the last of the n samples from t0 on
InRange(time, t0, dt, n) == n >= 1 /\ t0 <= time /\ time <= t0 + (n - 1) * dt

WinInRangeQuat ==
  InRange(ObsTime(WinCam, WinObs), WinCam.m_t0Quat, WinCam.m_dtQuat, numQuat(WinCam))

WinInRangePos ==
  InRange(ObsTime(WinCam, WinObs), WinCam.m_t0Ephem, WinCam.m_dtEphem, numPos(WinCam))

BookKeepingFailure == pc = "failed" /\ err = "Book-keeping error for pixel"

\* C5: for an observation whose imaging time is within the sampled range of
\* a sequence, the window of that sequence has 0 <= beg < end <= count and
\* beg = 0 when the time is exactly t0; when it is within the range of both
\* sequences the window resolution does not fail; no begin index is negative.
C5_InRangeWindow ==
  win.set =>
    /\ win.quat.beg >= 0
    /\ win.posSet => win.pos.beg >= 0
    /\ WinInRangeQuat =>
         /\ win.quat.beg < win.quat.end
         /\ win.quat.end <= numQuat(WinCam)
         /\ ObsTime(WinCam, WinObs) = WinCam.m_t0Quat => win.quat.beg = 0
    /\ (win.posSet /\ WinInRangePos) =>
         /\ win.pos.beg < win.pos.end
         /\ win.pos.end <= numPos(WinCam)
         /\ ObsTime(WinCam, WinObs) = WinCam.m_t0Ephem => win.pos.beg = 0
    /\ (WinInRangeQuat /\ WinInRangePos) => win.posSet /\ ~ BookKeepingFailure

\* a block was added for an observation imaged exactly at t0, whose windows
\* began below 0 before the clamping
C5_Witness ==
  /\ win.set
  /\ pc = "build"
  /\ WinInRangeQuat
  /\ WinInRangePos
  /\ ObsTime(WinCam, WinObs) = WinCam.m_t0Quat
  /\ win.quat.rawBeg < 0
  /\ win.pos.rawBeg < 0
  /\ Len(problem) > 0
  /\ problem[Len(problem)].m_begQuatIndex = 0

\* C6 as stated: the index of each guard-band time is the floor of
\* (time - t0)/dt, also for the times before t0.
C6_IndexIsFloor ==
  win.set =>
    /\ win.quat.index1 = FloorDiv(win.time1 - WinCam.m_t0Quat, WinCam.m_dtQuat)
    /\ win.quat.index2 = FloorDiv(win.time2 - WinCam.m_t0Quat, WinCam.m_dtQuat)
    /\ win.posSet =>
         /\ win.pos.index1 = FloorDiv(win.time1 - WinCam.m_t0Ephem, WinCam.m_dtEphem)
         /\ win.pos.index2 = FloorDiv(win.time2 - WinCam.m_t0Ephem, WinCam.m_dtEphem)

\* index is the quotient a/dt rounded towards zero
RoundedTowardsZero(index, a, dt) ==
  IF a >= 0 THEN index * dt <= a /\ a < (index + 1) * dt
  ELSE (index - 1) * dt < a /\ a <= index * dt

\* C6 as amended: the index of each guard-band time is (time - t0)/dt
\* rounded towards zero: its floor for the times from t0 on, its ceiling for
\* the times before t0.
C6_IndexIsTruncation ==
  win.set =>
    /\ RoundedTowardsZero(win.quat.index1, win.time1 - WinCam.m_t0Quat, WinCam.m_dtQuat)
    /\ RoundedTowardsZero(win.quat.index2, win.time2 - WinCam.m_t0Quat, WinCam.m_dtQuat)
    /\ win.posSet =>
         /\ RoundedTowardsZero(win.pos.index1, win.time1 - WinCam.m_t0Ephem, WinCam.m_dtEphem)
         /\ RoundedTowardsZero(win.pos.index2, win.time2 - WinCam.m_t0Ephem, WinCam.m_dtEphem)

\* a guard-band time before t0, not on a sample, got the ceiling as index
C6_Witness ==
  /\ win.set
  /\ win.time1 < WinCam.m_t0Quat
  /\ (WinCam.m_t0Quat - win.time1) % WinCam.m_dtQuat # 0
  /\ win.quat.index1 = FloorDiv(win.time1 - WinCam.m_t0Quat, WinCam.m_dtQuat) + 1

\* w, before the clamping, has below extra samples under the smaller index
\* and above extra samples over the larger one
Widened(w, below, above) ==
  /\ Min(w.index1, w.index2) - w.rawBeg = below
  /\ (w.rawEnd - 1) - Max(w.index1, w.index2) = above

\* w, after the clamping, is the part of the range before it in [0, count)
Clamped(w, count) ==
  (w.beg)..(w.end - 1) = ((w.rawBeg)..(w.rawEnd - 1)) \cap (0..(count - 1))

\* C7 as stated: before the clamping the window has half of the window size
\* (4) extra samples on each side of the index range of the two guard-band
\* times; after it, it is the intersection of that range with [0, count).
C7_SymmetricWindow ==
  win.set =>
    /\ Widened(win.quat, numQuatPerObs \div 2, numQuatPerObs \div 2)
    /\ Clamped(win.quat, numQuat(WinCam))
    /\ win.posSet =>
         /\ Widened(win.pos, numPosPerObs \div 2, numPosPerObs \div 2)
         /\ Clamped(win.pos, numPos(WinCam))

\* C7 as amended: before the clamping the window has half of the window
\* size less one (3) extra samples below the smaller index and half of the
\* window size (4) above the larger one; after it, it is the intersection
\* of that range with [0, count).
C7_Window ==
  win.set =>
    /\ Widened(win.quat, numQuatPerObs \div 2 - 1, numQuatPerObs \div 2)
    /\ Clamped(win.quat, numQuat(WinCam))
    /\ win.posSet =>
         /\ Widened(win.pos, numPosPerObs \div 2 - 1, numPosPerObs \div 2)
         /\ Clamped(win.pos, numPos(WinCam))

\* windows of a camera whose second guard-band row is imaged first, with
\* two different indices, the quaternion window inside the sequence and the
\* position window cut at its end
C7_Witness ==
  /\ win.set
  /\ win.posSet
  /\ win.time1 > win.time2
  /\ win.quat.index1 # win.quat.index2
  /\ win.quat.rawBeg > 0
  /\ win.quat.rawEnd <= numQuat(WinCam)
  /\ win.pos.rawEnd > numPos(WinCam)
  /\ win.pos.beg < win.pos.end

SolverNotStarted ==
  /\ eval_threads = 0
  /\ solve_threads = 0
  /\ residuals = <<>>
  /\ lastEval.ret = "none"
  /\ iter = 0
  /\ termination = "none"

\* C8: when the quaternion window or the position window of a non-outlier
\* observation is empty after the clamping, the run has failed with the
\* book-keeping error, no block was added for the observation and the
\* solver is not started; every block of the problem has non-empty windows.
C8_EmptyWindowFails ==
  /\ (win.set /\ (win.quat.beg >= win.quat.end \/ win.pos.beg >= win.pos.end)) =>
       /\ BookKeepingFailure
       /\ \A n \in 1..Len(problem) :
            ~ (problem[n].m_ls_model = win.icam /\ BlockPoint(problem[n]) = win.ipt)
       /\ SolverNotStarted
  /\ \A n \in 1..Len(problem) :
       /\ problem[n].m_begQuatIndex < problem[n].m_endQuatIndex
       /\ problem[n].m_begPosIndex < problem[n].m_endPosIndex

\* the set-up failed on the second camera's observation, whose window is
\* empty with beg = end, after the block of the first camera was added
C8_Witness ==
  /\ BookKeepingFailure
  /\ win.set
  /\ win.icam = 1
  /\ (win.quat.beg = win.quat.end \/ win.pos.beg = win.pos.end)
  /\ Len(problem) = 1
  /\ SolverNotStarted

\* array a (of kind arr, of the camera of block b) with every parameter
\* block registered for b replaced by the candidate passed for it
WithCandidate(b, arr, a, parameters) ==
  [k \in 1..Len(a) |->
     LET js == {j \in 1..Len(b.vars) :
                  /\ b.vars[j].arr = arr
                  /\ b.vars[j].off < k
                  /\ k <= b.vars[j].off + Len(parameters[j])}
     IN IF js = {} THEN a[k]
        ELSE LET j == CHOOSE j \in js : TRUE IN parameters[j][k - b.vars[j].off]]

\* the projection of the candidate tie point by the camera of the last
\* evaluation with the candidate samples in place
LastProjection ==
  LET b == problem[lastEval.block]
      model == cams[b.m_ls_model + 1]
      prm == lastEval.parameters
  IN groundToImage(WithCandidate(b, "quat", model.m_quaternions, prm),
                   WithCandidate(b, "pos", model.m_positions, prm),
                   prm[Len(prm)])

LastProjectionDefined ==
  /\ LastProjection.kind = "ok"
  /\ LastProjection.line # NaN
  /\ LastProjection.samp # NaN

\* C9: when the projection succeeds, the evaluation returns true and the
\* residual (projected pixel - observed pixel), the projection being that of
\* the candidate tie point by the candidate quaternions and positions.
C9_Residual ==
  (lastEval.ret # "none" /\ LastProjectionDefined) =>
    /\ lastEval.ret = "true"
    /\ lastEval.residuals =
         <<LastProjection.samp - problem[lastEval.block].m_observation[1],
           LastProjection.line - problem[lastEval.block].m_observation[2]>>

\* the candidate projects exactly onto the observation, with windows that
\* begin after the first sample: the residual is zero
C9_Witness ==
  /\ lastEval.ret = "true"
  /\ LastProjectionDefined
  /\ problem[lastEval.block].m_begQuatIndex > 0
  /\ problem[lastEval.block].m_begPosIndex > 0
  /\ lastEval.residuals = <<0, 0>>

\* C10: when the projection of the candidate state throws or yields an
\* undefined (not-a-number) pixel, the evaluation returns true with the
\* residual 1000 in both axes; no error leaves the evaluation.
C10_FailureGivesBigResidual ==
  /\ err # "exception"
  /\ (lastEval.ret # "none" /\ ~ LastProjectionDefined) =>
       /\ lastEval.ret = "true"
       /\ lastEval.residuals = <<g_big_pixel_value, g_big_pixel_value>>

\* element k (counted from 1) of an array of samples of the given width
\* belongs to a sample of the window [beg, end)
InWindow(k, width, beg, end) ==
  beg <= (k - 1) \div width /\ (k - 1) \div width < end

\* the block of the last evaluation
LastBlock == problem[lastEval.block]

\* C11: after a residual evaluation, successful or not, the shared camera
\* model is what it was before the call, the candidate values and the
\* observation are unchanged, and the local copy differs from the shared
\* model exactly by the candidate values of the samples of the two windows.
C11_NoSideEffect ==
  lastEval.ret # "none" =>
    LET b == LastBlock
        prm == lastEval.parameters
        shared == lastEval.shared
        cam == lastEval.cam
        nq == b.m_endQuatIndex - b.m_begQuatIndex
    IN /\ cams[b.m_ls_model + 1] = shared
       /\ Candidate(b, cams, tri_points_vec, lastEval.k, lastEval.dz) = prm
       /\ \E j \in 1..Len(crn[b.m_ls_model + 1]) :
            /\ crn[b.m_ls_model + 1][j].m_point_id = BlockPoint(b)
            /\ crn[b.m_ls_model + 1][j].m_location = b.m_observation
       /\ [cam EXCEPT !.m_quaternions = shared.m_quaternions,
                      !.m_positions = shared.m_positions] = shared
       /\ Len(cam.m_quaternions) = Len(shared.m_quaternions)
       /\ Len(cam.m_positions) = Len(shared.m_positions)
       /\ \A k \in 1..Len(shared.m_quaternions) :
            cam.m_quaternions[k] =
              IF InWindow(k, NUM_QUAT_PARAMS, b.m_begQuatIndex, b.m_endQuatIndex)
                THEN prm[(k - 1) \div NUM_QUAT_PARAMS - b.m_begQuatIndex + 1]
                        [((k - 1) % NUM_QUAT_PARAMS) + 1]
              ELSE shared.m_quaternions[k]
       /\ \A k \in 1..Len(shared.m_positions) :
            cam.m_positions[k] =
              IF InWindow(k, NUM_XYZ_PARAMS, b.m_begPosIndex, b.m_endPosIndex)
                THEN prm[nq + (k - 1) \div NUM_XYZ_PARAMS - b.m_begPosIndex + 1]
                        [((k - 1) % NUM_XYZ_PARAMS) + 1]
              ELSE shared.m_positions[k]

\* an evaluation at a candidate that differs from the shared model, with a
\* quaternion window that leaves samples out on both sides
C11_Witness ==
  /\ lastEval.ret = "true"
  /\ lastEval.k > 0
  /\ LastBlock.m_begQuatIndex > 0
  /\ LastBlock.m_endQuatIndex < numQuat(lastEval.shared)
  /\ lastEval.cam.m_quaternions # lastEval.shared.m_quaternions
  /\ lastEval.cam.m_positions # lastEval.shared.m_positions

\* the residuals of block n when it is evaluated alone, on the cameras and
\* the tie points as they are before problem.Evaluate
AloneResiduals(n) ==
  Evaluate(problem[n], pre_cams[problem[n].m_ls_model + 1],
           Candidate(problem[n], pre_cams, pre_tri, 0, 0)).residuals

\* C12: while the worker threads evaluate the blocks, in any order and with
\* any interleaving, no write of shared camera state meets another thread's
\* access to it, the shared cameras stay as they were, every finished
\* evaluation has the residuals it has when run alone, and the vector
\* handed back is that of the blocks evaluated one after the other.
C12_ConcurrentEvaluation ==
  /\ ~ race
  /\ pc = "evaluate" =>
       /\ cams = pre_cams
       /\ \A n \in 1..Len(work) :
            work[n].st = "done" => work[n].residuals = AloneResiduals(n)
  /\ (pc \in {"solve", "done"} /\ eval_threads > 1) =>
       residuals = EvaluateAll(problem, pre_cams, pre_tri, 1)

\* two blocks of one camera are with two threads, one copying the model and
\* one past its copy, while a later block is already evaluated, with a
\* residual that is not zero
C12_Witness ==
  /\ pc = "evaluate"
  /\ \E n, m, d \in 1..Len(work) :
       /\ n < d
       /\ m # d
       /\ work[n].st = "copied"
       /\ work[m].st = "copying"
       /\ problem[n].m_ls_model = problem[m].m_ls_model
       /\ work[d].st = "done"
       /\ work[d].residuals # <<0, 0>>

\* the set-up of the cost function has gone through every observation
SetUpOver == pc \in {"residuals", "evaluate", "solve", "done"}

\* the observations of camera c (counted from 1) of tie points that are not
\* outliers
KeptObs(c) == {j \in 1..Len(crn[c]) : crn[c][j].m_point_id \notin outliers}

\* the samples of the sequence arr of camera c that are in the window of a
\* kept observation
WindowSamples(c, arr) ==
  UNION {LET w == IF arr = "quat"
                    THEN QuatWindow(pre_cams[c], crn[c][j].m_location)
                  ELSE PosWindow(pre_cams[c], crn[c][j].m_location)
         IN (w.beg)..(w.end - 1) : j \in KeptObs(c)}

\* the tie points that are not outliers and have an observation
KeptPoints ==
  {p \in 0..(num_tri_points - 1) :
     /\ p \notin outliers
     /\ \E c \in 1..Len(crn) : \E j \in 1..Len(crn[c]) : crn[c][j].m_point_id = p}

\* C13: once the cost function is set up, the parameter blocks registered
\* are exactly the quaternion and position samples in the window of at
\* least one kept observation of their camera, and the coordinates of the
\* kept tie points that are observed.
C13_RegisteredBlocks ==
  SetUpOver =>
    Registered(problem) =
      UNION {{[arr |-> "quat", cam |-> c - 1, off |-> s * NUM_QUAT_PARAMS]
                : s \in WindowSamples(c, "quat")} : c \in 1..Len(crn)}
      \cup UNION {{[arr |-> "pos", cam |-> c - 1, off |-> s * NUM_XYZ_PARAMS]
                     : s \in WindowSamples(c, "pos")} : c \in 1..Len(crn)}
      \cup {[arr |-> "tri", cam |-> -1, off |-> p * NUM_XYZ_PARAMS] : p \in KeptPoints}

\* a problem where the first camera has a kept observation and an
\* observation of an outlier, whose window has a sample that is not
\* registered, and position and quaternion windows that differ
C13_Witness ==
  /\ SetUpOver
  /\ \E j, k \in 1..Len(crn[1]) :
       /\ j \in KeptObs(1)
       /\ k \notin KeptObs(1)
       /\ \E s \in 0..(numQuat(pre_cams[1]) - 1) :
            /\ QuatWindow(pre_cams[1], crn[1][k].m_location).beg <= s
            /\ s < QuatWindow(pre_cams[1], crn[1][k].m_location).end
            /\ [arr |-> "quat", cam |-> 0, off |-> s * NUM_QUAT_PARAMS]
                 \notin Registered(problem)
       /\ QuatWindow(pre_cams[1], crn[1][j].m_location).end
            # PosWindow(pre_cams[1], crn[1][j].m_location).end
  /\ [arr |-> "quat", cam |-> 0, off |-> 0] \in Registered(problem)

\* C14: a step of the screen leaves in the outlier set every tie point that
\* was in it, and no step outside the screen (the set-up of the cost
\* function, the evaluations, the solve) changes the set.
C14_OutliersGrowOnly ==
  [][/\ outliers \subseteq outliers'
     /\ pc # "screen" => outliers' = outliers]_vars

\* the run has ended after a screen that flagged tie points, a set-up that
\* added blocks and a solve that moved the parameters
C14_Witness ==
  /\ pc = "done"
  /\ outliers # {}
  /\ Len(problem) > 0
  /\ iter > 0
  /\ cams # pre_cams

\* C15: a solve that ends in the state FAILURE does not let the run return
\* as a run that succeeded; one that ends in NO_CONVERGENCE logs a warning
\* and the run returns normally.
C15_FailureSurfaced ==
  /\ termination = "FAILURE" => pc # "done"
  /\ termination = "NO_CONVERGENCE" =>
       /\ pc = "done"
       /\ "Found a valid solution, but did not reach the actual minimum."
            \in SolveMessages(termination)

(***************************************************************************)
(* The covariance propagation (asp/Camera/Covariance.cc).                  *)
(*                                                                         *)
(* Lengths and quaternion components are integers in units of 1e-6 (of a   *)
(* metre, of a unit quaternion).  A vector is a sequence of numbers; a     *)
(* component may be NaN, Inf or -Inf.  A rotation is a permutation of the  *)
(* three axes, written as the sequence of the source axis of each row.     *)
(***************************************************************************)

\* const double deltaPosition = 0.01, in units of 1e-6 m
deltaPosition == 10000

\* const double deltaQuat = 1.0e-6, in units of 1e-6
deltaQuat == 1

Zero3 == <<0, 0, 0>>

Zero4 == <<0, 0, 0, 0>>

\* a code variant of positionDelta with the signs of the odd and the even
\* indices exchanged
positionDeltaEvenPlus(num) ==
  IF num = 0 THEN Zero3
  ELSE IF num > 6 THEN Zero3
  ELSE LET sign == IF num % 2 = 0 THEN 1 ELSE -1
           index == TruncDiv(num - 1, 2)
       IN  [Zero3 EXCEPT ![index + 1] = sign * deltaPosition]

\* vw::Vector<double, 3> positionDelta(int num)
positionDelta(num) ==
  IF num = 0 THEN Zero3
  ELSE IF num > 6 THEN Zero3
  ELSE LET sign == IF num % 2 = 0 THEN -1 ELSE 1
           index == TruncDiv(num - 1, 2)
       IN  [Zero3 EXCEPT ![index + 1] = sign * deltaPosition]

\* vw::Vector<double, 4> quatDelta(int num): the vector returned, or the
\* exception thrown
quatDelta(num) ==
  IF num <= 6 THEN [kind |-> "ok", ans |-> Zero4]
  ELSE LET n == num - 6
       IN  IF n > 8
           THEN [kind |-> "throw", what |-> "Out of bounds in quatDelta()."]
           ELSE LET sign == IF n % 2 = 0 THEN -1 ELSE 1
                    index == TruncDiv(n - 1, 2)
                IN  [kind |-> "ok",
                     ans |-> [Zero4 EXCEPT ![index + 1] = sign * deltaQuat]]

\* int numCamsForCovariance()
numCamsForCovariance == 15

\* the value +infinity of a double; -Inf is -infinity
Inf == 2000000000

IsInf(x) == x = Inf \/ x = -Inf

\* the largest finite double
DBL_MAX == 1000000000

\* the double nearest to the number x: infinite past the largest finite one
Overflow(x) == IF x > DBL_MAX THEN Inf ELSE IF x < -DBL_MAX THEN -Inf ELSE x

\* a - b on doubles
XSub(a, b) ==
  IF a = NaN \/ b = NaN THEN NaN
  ELSE IF IsInf(a) THEN (IF a = b THEN NaN ELSE a)
  ELSE IF IsInf(b) THEN -b
  ELSE Overflow(a - b)

\* a + b on doubles
XAdd(a, b) ==
  IF a = NaN \/ b = NaN THEN NaN
  ELSE IF IsInf(a) THEN (IF b = -a THEN NaN ELSE a)
  ELSE IF IsInf(b) THEN b
  ELSE Overflow(a + b)

\* a / 2.0 on doubles
XHalf(a) == IF a = NaN \/ IsInf(a) THEN a ELSE a \div 2

\* operators of vw::Vector3 and vw::Matrix3x3
VSub(u, v) == <<XSub(u[1], v[1]), XSub(u[2], v[2]), XSub(u[3], v[3])>>

VAdd(u, v) == <<XAdd(u[1], v[1]), XAdd(u[2], v[2]), XAdd(u[3], v[3])>>

VHalf(u) == <<XHalf(u[1]), XHalf(u[2]), XHalf(u[3])>>

\* a matrix times a vector; row a of the matrix has a one in column m[a],
\* or is a row of not-a-number when m[a] = 0
MatVec(m, v) == [a \in 1..3 |-> IF m[a] = 0 THEN NaN ELSE v[m[a]]]

\* vw::Vector != : some component differs; a NaN differs from itself
VNotEqual(u, v) ==
  \E a \in DOMAIN u : u[a] = NaN \/ v[a] = NaN \/ u[a] # v[a]

Cross(u, v) ==
  <<u[2] * v[3] - u[3] * v[2], u[3] * v[1] - u[1] * v[3],
    u[1] * v[2] - u[2] * v[1]>>

\* vw::stereo::triangulate_pair (library).  The point is a function of the
\* two rays: parallel rays give 0/0 in every component, the rays closest
\* to parallel (the smallest cross product that is not zero) overflow the
\* quotient to infinity, any other pair gives a finite point.
triangulate_pair(dir1, ctr1, dir2, ctr2) ==
  LET v12 == Cross(dir1, dir2)
  IN  IF v12 = Zero3 THEN <<NaN, NaN, NaN>>
      ELSE IF v12[1] * v12[1] + v12[2] * v12[2] + v12[3] * v12[3] = 1
        THEN <<Inf, Inf, Inf>>
        ELSE [a \in 1..3 |->
                2 * (ctr1[a] + ctr2[a]) + 2 * dir1[a] + 4 * dir2[a]]

\* inverse(datum.lonlat_to_ned_matrix(datum.cartesian_to_geodetic(tri)))
\* (library): the rotation depends on the point, and a point at infinity
\* has no latitude: the matrix is not-a-number
EcefToNedAt(tri) ==
  IF \E a \in 1..3 : IsInf(tri[a]) \/ tri[a] = NaN THEN <<0, 0, 0>>
  ELSE IF tri[3] >= 0 THEN <<2, 1, 3>> ELSE <<1, 3, 2>>

\* the sizes of m_perturbed_cams the two cameras come with: not set up,
\* cut short, complete
PerturbedSizes == {0, numCamsForCovariance - 3, numCamsForCovariance - 1}

\* the nominal rays of the two cameras at the two pixels
\* (pixel_to_vector, camera_center): two pairs with a finite point, one in
\* each of the two NED frames, a parallel pair, a pair close to parallel
NominalRays ==
  { [dir1 |-> <<1, 0, 5>>, ctr1 |-> <<10, 20, 30>>,
     dir2 |-> <<0, 1, 7>>, ctr2 |-> <<40, 50, 60>>],
    [dir1 |-> <<1, 0, 5>>, ctr1 |-> <<10, 20, -300>>,
     dir2 |-> <<0, 1, 7>>, ctr2 |-> <<40, 50, 60>>],
    [dir1 |-> <<1, 0, 5>>, ctr1 |-> <<10, 20, 30>>,
     dir2 |-> <<1, 0, 5>>, ctr2 |-> <<40, 50, 60>>],
    [dir1 |-> <<1, 0, 0>>, ctr1 |-> <<10, 20, 30>>,
     dir2 |-> <<1, 1, 0>>, ctr2 |-> <<40, 50, 60>>] }

\* the coordinate (0..6) whose perturbation does not move the ray through
\* the pixel, or -1 when every coordinate moves it
BlindCoords == {-1, 2, 6}

\* what a read past the end of a vector may return
GarbageRays ==
  { [dir |-> <<0, 0, 1>>, ctr |-> <<0, 0, 0>>],
    [dir |-> <<3, 1, 4>>, ctr |-> <<1, 5, 9>>] }

\* the inputs of scaledTriangulationJacobian: whether each camera is an
\* AdjustedCameraModel, its ecef_transform (rotation and translation),
\* whether its unadjusted model is a DGCameraModel, the size of its
\* m_perturbed_cams, and the rays the camera models return
CovInputs ==
  { [adj1 |-> a1, adj2 |-> a2, dg1 |-> g1, dg2 |-> g2,
     size1 |-> n1, size2 |-> n2, rays |-> r, blind |-> b,
     cam1_rot |-> <<2, 1, 3>>, cam1_shift |-> <<100, 0, 0>>,
     cam2_rot |-> <<1, 3, 2>>, cam2_shift |-> <<0, -200, 0>>] :
    a1 \in BOOLEAN, a2 \in BOOLEAN, g1 \in BOOLEAN, g2 \in BOOLEAN,
    n1 \in PerturbedSizes, n2 \in PerturbedSizes, r \in NominalRays,
    b \in BlindCoords }

\* The ray of the camera perturbed by d = [pos, quat], given the ray nom of
\* the nominal camera (LinescanDGModel.cc creates the perturbed camera from
\* the perturbed positions and quaternions; a perturbed quaternion also
\* moves the camera centre)
PerturbedRay(nom, d) ==
  [dir |-> [a \in 1..3 |-> nom.dir[a] + 2 * (d.quat[a] \div deltaQuat)],
   ctr |-> [a \in 1..3 |-> nom.ctr[a] + 2 * (d.pos[a] \div deltaPosition)
                             + 4 * (d.quat[4] \div deltaQuat)
                             + 6 * (d.quat[a] \div deltaQuat)]]

\* The ray of m_perturbed_cams[it] at the pixel: the camera was created
\* with the perturbation number it + 1
VariantRay(nom, deltas, blind, it) ==
  IF TruncDiv(it, 2) = blind THEN nom
  ELSE PerturbedRay(nom, At(deltas, it + 1))

\* the state when the cameras are loaded, on the inputs in
CovStart(in) ==
  [pc |-> "perturb", in |-> in, deltas |-> <<>>,
   adjusted_cameras |-> FALSE,
   cam1_dirs |-> <<>>, cam1_ctrs |-> <<>>,
   cam2_dirs |-> <<>>, cam2_ctrs |-> <<>>,
   tri_nominal |-> Zero3, EcefToNed |-> <<1, 2, 3>>,
   J |-> <<>>, coord |-> 0, used |-> <<>>, out_of_bounds |-> FALSE,
   sc |-> <<>>, C |-> <<>>, P |-> <<>>, ans |-> <<>>,
   what |-> ""]

\* One perturbation of the table the perturbed cameras are created from:
\* number num gets positionDelta(num) and quatDelta(num)
CovPerturb ==
  /\ cov.pc = "perturb"
  /\ LET num == Len(cov.deltas)
         q == quatDelta(num)
     IN  IF q.kind = "throw"
         THEN cov' = [cov EXCEPT !.pc = "failed", !.what = q.what]
         ELSE cov' = [cov EXCEPT
                !.deltas = Append(@, [pos |-> positionDelta(num),
                                      quat |-> q.ans]),
                !.pc = IF num + 1 < numCamsForCovariance
                       THEN "perturb" ELSE "call"]
  /\ UNCHANGED <<jitter, prism>>

\* scaledTriangulationJacobian, lines 101-120: handle adjusted cameras
CovCheckAdjusted ==
  /\ cov.pc = "call"
  /\ IF (~cov.in.adj1) # (~cov.in.adj2)
     THEN cov' = [cov EXCEPT !.pc = "failed",
            !.what = "The cameras must be either both adjusted or both unadjusted."]
     ELSE cov' = [cov EXCEPT !.pc = "dg",
            !.adjusted_cameras = cov.in.adj1 /\ cov.in.adj2]
  /\ UNCHANGED <<jitter, prism>>

\* a code variant of PerturbedCheck without the comparison of the sizes
PerturbedCheckNoSizes(in) ==
  IF ~in.dg1 \/ ~in.dg2 THEN "Expecting DG cameras."
  ELSE IF in.size1 = 0 \/ in.size2 = 0
  THEN "The perturbed cameras were not set up."
  ELSE ""

\* lines 122-135: the error the checks of the DG cameras and of their
\* perturbed cameras throw, "" when they pass
PerturbedCheck(in) ==
  IF ~in.dg1 \/ ~in.dg2 THEN "Expecting DG cameras."
  ELSE IF in.size1 = 0 \/ in.size2 = 0
  THEN "The perturbed cameras were not set up."
  ELSE IF in.size1 # in.size2
  THEN "The number of perturbations in the two cameras do not agree."
  ELSE ""

\* lines 122-135: the cameras are DG cameras with perturbed cameras set up
CovCheckPerturbed ==
  /\ cov.pc = "dg"
  /\ LET what == PerturbedCheck(cov.in)
     IN  IF what # ""
         THEN cov' = [cov EXCEPT !.pc = "failed", !.what = what]
         ELSE cov' = [cov EXCEPT !.pc = "rays"]
  /\ UNCHANGED <<jitter, prism>>

\* lines 137-150: the centre and the direction of the nominal camera and
\* of each perturbed camera
CovRays ==
  /\ cov.pc = "rays"
  /\ LET in == cov.in
         nom1 == [dir |-> in.rays.dir1, ctr |-> in.rays.ctr1]
         nom2 == [dir |-> in.rays.dir2, ctr |-> in.rays.ctr2]
         ray1(k) == IF k = 1 THEN nom1
                    ELSE VariantRay(nom1, cov.deltas, in.blind, k - 2)
         ray2(k) == IF k = 1 THEN nom2
                    ELSE VariantRay(nom2, cov.deltas, in.blind, k - 2)
     IN  cov' = [cov EXCEPT
           !.cam1_dirs = [k \in 1..(1 + in.size1) |-> ray1(k).dir],
           !.cam1_ctrs = [k \in 1..(1 + in.size1) |-> ray1(k).ctr],
           !.cam2_dirs = [k \in 1..(1 + in.size1) |-> ray2(k).dir],
           !.cam2_ctrs = [k \in 1..(1 + in.size1) |-> ray2(k).ctr],
           !.pc = "adjust"]
  /\ UNCHANGED <<jitter, prism>>

\* a code variant of ApplyAdjustments that gives the second camera the
\* transform of the first
ApplyAdjustmentsFirstOnly(c) ==
  [c EXCEPT
     !.cam1_dirs = [k \in DOMAIN @ |-> MatVec(c.in.cam1_rot, @[k])],
     !.cam2_dirs = [k \in DOMAIN @ |-> MatVec(c.in.cam1_rot, @[k])],
     !.cam1_ctrs = [k \in DOMAIN @ |->
                      VAdd(MatVec(c.in.cam1_rot, @[k]), c.in.cam1_shift)],
     !.cam2_ctrs = [k \in DOMAIN @ |->
                      VAdd(MatVec(c.in.cam1_rot, @[k]), c.in.cam1_shift)]]

\* lines 153-160: the loop that applies the adjustments to every entry of
\* the four vectors
ApplyAdjustments(c) ==
  [c EXCEPT
     !.cam1_dirs = [k \in DOMAIN @ |-> MatVec(c.in.cam1_rot, @[k])],
     !.cam2_dirs = [k \in DOMAIN @ |-> MatVec(c.in.cam2_rot, @[k])],
     !.cam1_ctrs = [k \in DOMAIN @ |->
                      VAdd(MatVec(c.in.cam1_rot, @[k]), c.in.cam1_shift)],
     !.cam2_ctrs = [k \in DOMAIN @ |->
                      VAdd(MatVec(c.in.cam2_rot, @[k]), c.in.cam2_shift)]]

\* lines 152-160: apply adjustments
CovAdjust ==
  /\ cov.pc = "adjust"
  /\ cov' = [(IF cov.adjusted_cameras THEN ApplyAdjustments(cov) ELSE cov)
               EXCEPT !.pc = "nominal"]
  /\ UNCHANGED <<jitter, prism>>

\* line 168: if (tri_nominal != tri_nominal)
TriangulationFailed(tri) == VNotEqual(tri, tri)

\* lines 162-184: the nominal triangulation point, the matrix from ECEF to
\* NED at that point, and J set to the zero matrix of 3 rows and 14 columns
\* (kept as the sequence of its columns)
CovNominal ==
  /\ cov.pc = "nominal"
  /\ LET tri == triangulate_pair(At(cov.cam1_dirs, 0), At(cov.cam1_ctrs, 0),
                                 At(cov.cam2_dirs, 0), At(cov.cam2_ctrs, 0))
     IN  IF TriangulationFailed(tri)
         THEN cov' = [cov EXCEPT !.tri_nominal = tri, !.pc = "failed",
                                 !.what = "Could not triangulate."]
         ELSE cov' = [cov EXCEPT !.tri_nominal = tri,
                                 !.EcefToNed = EcefToNedAt(tri),
                                 !.J = [k \in 1..14 |-> Zero3],
                                 !.coord = 0,
                                 !.pc = "loop"]
  /\ UNCHANGED <<jitter, prism>>

\* a code variant of PlusMinus that takes the perturbation numbers of the
\* second camera from coord and not from coord - 7
PlusMinusNoShift(coord) ==
  IF coord < 7
  THEN [cam1_plus |-> 2 * coord + 1, cam1_minus |-> 2 * coord + 2,
        cam2_plus |-> 0, cam2_minus |-> 0]
  ELSE [cam1_plus |-> 0, cam1_minus |-> 0,
        cam2_plus |-> 2 * coord + 1, cam2_minus |-> 2 * coord + 2]

\* lines 189-216: the indices in the vectors of the rays of the plus and
\* of the minus triangulation of column coord
PlusMinus(coord) ==
  IF coord < 7
  THEN [cam1_plus |-> 2 * coord + 1, cam1_minus |-> 2 * coord + 2,
        cam2_plus |-> 0, cam2_minus |-> 0]
  ELSE LET coord2 == coord - 7
       IN  [cam1_plus |-> 0, cam1_minus |-> 0,
            cam2_plus |-> 2 * coord2 + 1, cam2_minus |-> 2 * coord2 + 2]

\* The values dirs[k] and ctrs[k] may have: the entry, or anything when k
\* is past the end of the vectors
ReadRay(dirs, ctrs, k) ==
  IF k < Len(dirs) THEN {[dir |-> At(dirs, k), ctr |-> At(ctrs, k)]}
  ELSE GarbageRays

\* a code variant of NedDiff that divides by the spacing as well
NedDiffPerUnit(m, tri_plus, tri_minus, tri_nominal) ==
  LET d == VHalf(VSub(MatVec(m, VSub(tri_plus, tri_nominal)),
                      MatVec(m, VSub(tri_minus, tri_nominal))))
  IN  <<d[1] \div deltaPosition, d[2] \div deltaPosition,
        d[3] \div deltaPosition>>

\* lines 226-237: ned_plus, ned_minus and ned_diff
NedDiff(m, tri_plus, tri_minus, tri_nominal) ==
  LET ned_plus == MatVec(m, VSub(tri_plus, tri_nominal))
      ned_minus == MatVec(m, VSub(tri_minus, tri_nominal))
  IN  VHalf(VSub(ned_plus, ned_minus))

\* lines 185-241: one pass of the loop over coord.  A read past the end of
\* the vectors is undefined: the run stops there, or goes on with whatever
\* the read returned.
CovColumn ==
  /\ cov.pc = "loop"
  /\ cov.coord < 14
  /\ LET ix == PlusMinus(cov.coord)
         past == \E k \in {ix.cam1_plus, ix.cam1_minus,
                           ix.cam2_plus, ix.cam2_minus} :
                   k >= Len(cov.cam1_dirs)
     IN  \/ /\ past
            /\ cov' = [cov EXCEPT !.pc = "crashed", !.out_of_bounds = TRUE]
         \/ \E p1 \in ReadRay(cov.cam1_dirs, cov.cam1_ctrs, ix.cam1_plus),
               m1 \in ReadRay(cov.cam1_dirs, cov.cam1_ctrs, ix.cam1_minus),
               p2 \in ReadRay(cov.cam2_dirs, cov.cam2_ctrs, ix.cam2_plus),
               m2 \in ReadRay(cov.cam2_dirs, cov.cam2_ctrs, ix.cam2_minus) :
              LET tri_plus == triangulate_pair(p1.dir, p1.ctr, p2.dir, p2.ctr)
                  tri_minus == triangulate_pair(m1.dir, m1.ctr,
                                                m2.dir, m2.ctr)
                  ned_diff == NedDiff(cov.EcefToNed, tri_plus, tri_minus,
                                      cov.tri_nominal)
              IN  cov' = [cov EXCEPT
                    !.J[cov.coord + 1] = ned_diff,
                    !.used = Append(@, [ix |-> ix,
                                        plus1 |-> p1, minus1 |-> m1,
                                        plus2 |-> p2, minus2 |-> m2,
                                        tri_plus |-> tri_plus,
                                        tri_minus |-> tri_minus]),
                    !.out_of_bounds = @ \/ past,
                    !.coord = @ + 1]
  /\ UNCHANGED <<jitter, prism>>

\* line 243: return
CovReturn ==
  /\ cov.pc = "loop"
  /\ cov.coord = 14
  /\ cov' = [cov EXCEPT !.pc = "done"]
  /\ UNCHANGED <<jitter, prism>>

\* ---------------------------------------------------------------------
\* The input covariance and the propagation
\* ---------------------------------------------------------------------

Abs(x) == IF x < 0 THEN -x ELSE x

\* a * b on doubles
XMul(a, b) ==
  IF a = NaN \/ b = NaN THEN NaN
  ELSE IF IsInf(a) \/ IsInf(b)
    THEN (IF a = 0 \/ b = 0 THEN NaN
          ELSE IF (a > 0) = (b > 0) THEN Inf ELSE -Inf)
  ELSE IF a = 0 \/ b = 0 THEN 0
  ELSE IF Abs(a) > DBL_MAX \div Abs(b)
    THEN (IF (a > 0) = (b > 0) THEN Inf ELSE -Inf)
  ELSE a * b

\* a / b on doubles (the quotient is rounded towards zero)
XDiv(a, b) ==
  IF a = NaN \/ b = NaN THEN NaN
  ELSE IF IsInf(a) THEN (IF IsInf(b) THEN NaN
                         ELSE IF (a > 0) = (b >= 0) THEN Inf ELSE -Inf)
  ELSE IF IsInf(b) THEN 0
  ELSE IF b = 0 THEN (IF a = 0 THEN NaN ELSE IF a > 0 THEN Inf ELSE -Inf)
  ELSE IF (a >= 0) = (b > 0) THEN Abs(a) \div Abs(b)
  ELSE -(Abs(a) \div Abs(b))

RECURSIVE SqrtBetween(_, _, _)
\* the integer r with lo <= r < hi and r * r <= x < (r + 1) * (r + 1)
SqrtBetween(x, lo, hi) ==
  IF hi - lo <= 1 THEN lo
  ELSE LET mid == (lo + hi) \div 2
       IN  IF mid * mid <= x THEN SqrtBetween(x, mid, hi)
           ELSE SqrtBetween(x, lo, mid)

\* sqrt(x) on doubles (the root is rounded down)
XSqrt(x) ==
  IF x = NaN \/ x < 0 THEN NaN
  ELSE IF x = Inf THEN Inf
  ELSE SqrtBetween(x, 0, 31623)

RECURSIVE DotFrom(_, _, _)
\* the sum over k of u[k] * v[k], added in the order of k
DotFrom(u, v, k) ==
  IF k > Len(u) THEN 0
  ELSE IF k = Len(u) THEN XMul(u[k], v[k])
  ELSE XAdd(XMul(u[k], v[k]), DotFrom(u, v, k + 1))

\* the sequence f(1), ..., f(14)
Row14(f(_)) ==
  <<f(1), f(2), f(3), f(4), f(5), f(6), f(7),
    f(8), f(9), f(10), f(11), f(12), f(13), f(14)>>

\* the matrices are sequences of rows, but for J, the sequence of its
\* columns: row r of J
JRow(J, r) == LET e(k) == J[k][r] IN Row14(e)

\* column c of a matrix of 14 rows
Column(M, c) == LET e(k) == M[k][c] IN Row14(e)

RECURSIVE InsertFrom(_, _, _, _, _, _, _)
\* the loops of insertBlock from (row, col) on, count values consumed
InsertFrom(C, start, size, inputVals, row, col, count) ==
  IF row >= size THEN C
  ELSE IF col >= size
    THEN InsertFrom(C, start, size, inputVals, row + 1, row + 1, count)
  ELSE LET v == At(inputVals, count)
           C1 == [C EXCEPT ![start + row + 1][start + col + 1] = v]
           C2 == [C1 EXCEPT ![start + col + 1][start + row + 1] = v]
       IN  InsertFrom(C2, start, size, inputVals, row, col + 1, count + 1)

\* void insertBlock(int start, int size, double* inputVals, Matrix & C)
insertBlock(start, size, inputVals, C) ==
  InsertFrom(C, start, size, inputVals, 0, 0, 0)

\* a code variant of ScaleCov that does not square the spacing
ScaleCovLinear(vals, factor, delta) ==
  [k \in DOMAIN vals |-> XDiv(XMul(factor, vals[k]), delta)]

\* lines 298-305: vals[k] = factor * vals[k] / (delta * delta)
ScaleCov(vals, factor, delta) ==
  [k \in DOMAIN vals |->
     XDiv(XMul(factor, vals[k]), XMul(delta, delta))]

\* a code variant of SatelliteCovariance that inserts the orientation
\* block of the second camera one row and column too early
SatelliteCovarianceOverlap(sc) ==
  LET p_cov1 == ScaleCov(sc.p_cov1, sc.pf, deltaPosition)
      p_cov2 == ScaleCov(sc.p_cov2, sc.pf, deltaPosition)
      q_cov1 == ScaleCov(sc.q_cov1, sc.qf, deltaQuat)
      q_cov2 == ScaleCov(sc.q_cov2, sc.qf, deltaQuat)
      C0 == [r \in 1..14 |-> [c \in 1..14 |-> 0]]
  IN  insertBlock(9, 4, q_cov2,
        insertBlock(7, 3, p_cov2,
          insertBlock(3, 4, q_cov1,
            insertBlock(0, 3, p_cov1, C0))))

\* scaledSatelliteCovariance, lines 272-311, on the interpolated
\* covariances and the two factors sc
SatelliteCovariance(sc) ==
  LET p_cov1 == ScaleCov(sc.p_cov1, sc.pf, deltaPosition)
      p_cov2 == ScaleCov(sc.p_cov2, sc.pf, deltaPosition)
      q_cov1 == ScaleCov(sc.q_cov1, sc.qf, deltaQuat)
      q_cov2 == ScaleCov(sc.q_cov2, sc.qf, deltaQuat)
      C0 == [r \in 1..14 |-> [c \in 1..14 |-> 0]]
  IN  insertBlock(10, 4, q_cov2,
        insertBlock(7, 3, p_cov2,
          insertBlock(3, 4, q_cov1,
            insertBlock(0, 3, p_cov1, C0))))

\* the unit of the position covariances: the square of deltaPosition
PosUnit == deltaPosition * deltaPosition

\* The covariances interpolated at the two pixels (interpSatellitePosCov,
\* interpSatelliteQuatCov: 6 and 10 values, the upper triangles row by
\* row): all zero, positive definite, with a negative variance
CovTables ==
  { [p_cov1 |-> <<0, 0, 0, 0, 0, 0>>,
     q_cov1 |-> <<0, 0, 0, 0, 0, 0, 0, 0, 0, 0>>,
     p_cov2 |-> <<0, 0, 0, 0, 0, 0>>,
     q_cov2 |-> <<0, 0, 0, 0, 0, 0, 0, 0, 0, 0>>, positive |-> FALSE],
    [p_cov1 |-> <<2 * PosUnit, PosUnit, 0, 2 * PosUnit, 0, PosUnit>>,
     q_cov1 |-> <<2, 1, 0, 0, 2, 0, 0, 1, 0, 1>>,
     p_cov2 |-> <<PosUnit, 0, 0, 3 * PosUnit, PosUnit, 2 * PosUnit>>,
     q_cov2 |-> <<3, 0, 1, 0, 1, 0, 0, 2, 0, 1>>, positive |-> TRUE],
    [p_cov1 |-> <<-PosUnit, 0, 0, PosUnit, 0, PosUnit>>,
     q_cov1 |-> <<1, 0, 0, 0, -1, 0, 0, 1, 0, 1>>,
     p_cov2 |-> <<PosUnit, 2 * PosUnit, 0, PosUnit, 0, PosUnit>>,
     q_cov2 |-> <<1, 0, 0, 0, 1, 0, 0, 1, 0, -1>>, positive |-> FALSE] }

\* the values of position_covariance_factor and, but for the last one,
\* of orientation_covariance_factor
CovFactors == {0, 1, 3}

\* one more value of orientation_covariance_factor: a large one
LargeFactor == 1000

\* what scaledSatelliteCovariance reads: the tables and the two factors
SatCovInputs ==
  { [p_cov1 |-> tb.p_cov1, q_cov1 |-> tb.q_cov1, p_cov2 |-> tb.p_cov2,
     q_cov2 |-> tb.q_cov2, positive |-> tb.positive, pf |-> f, qf |-> g] :
    tb \in CovTables, f \in CovFactors, g \in CovFactors \cup {LargeFactor} }

\* propagateCovariance, line 348: scaledSatelliteCovariance
CovSatellite ==
  /\ cov.pc = "done"
  /\ \E sc \in SatCovInputs :
       IF ~cov.in.dg1 \/ ~cov.in.dg2
       THEN cov' = [cov EXCEPT !.pc = "failed",
                      !.C = [r \in 1..14 |-> [c \in 1..14 |-> 0]],
                      !.what = "Expecting DG cameras."]
       ELSE cov' = [cov EXCEPT !.sc = sc, !.C = SatelliteCovariance(sc),
                                !.pc = "satellite"]
  /\ UNCHANGED <<jitter, prism>>

\* lines 352-353: P = J * C * JT
Propagate(J, C) ==
  LET rows == <<JRow(J, 1), JRow(J, 2), JRow(J, 3)>>
      cols == LET c(b) == Column(C, b) IN Row14(c)
      jc(r) == LET e(b) == DotFrom(rows[r], cols[b], 1) IN Row14(e)
      JC == <<jc(1), jc(2), jc(3)>>
      p(r) == <<DotFrom(JC[r], rows[1], 1), DotFrom(JC[r], rows[2], 1),
                DotFrom(JC[r], rows[3], 1)>>
  IN  <<p(1), p(2), p(3)>>

\* det(H) of the 2x2 matrix H
Det2(H) == XSub(XMul(H[1][1], H[2][2]), XMul(H[1][2], H[2][1]))

\* lines 363-375: the horizontal and the vertical component
Summary(P) ==
  LET H == <<<<P[1][1], P[1][2]>>, <<P[2][1], P[2][2]>>>>
  IN  <<XSqrt(Det2(H)), P[3][3]>>

\* propagateCovariance, lines 350-383
CovPropagate ==
  /\ cov.pc = "satellite"
  /\ LET P == Propagate(cov.J, cov.C)
         ans == Summary(P)
     IN  IF VNotEqual(ans, ans)
         THEN cov' = [cov EXCEPT !.P = P, !.pc = "failed",
                        !.what = "Could not compute the covariance."]
         ELSE cov' = [cov EXCEPT !.P = P, !.ans = ans, !.pc = "returned"]
  /\ UNCHANGED <<jitter, prism>>

\* the jitter solver when it is not run: the state before a run
JitterIdle ==
  InitJitter(CHOOSE s \in LoadScenarios :
               Len(s.mt) = 1 /\ ~s.mt[1] /\ s.num_threads = 1)

InitCov ==
  /\ JitterIdle
  /\ prism = PrismIdle
  /\ \E in \in CovInputs : cov = CovStart(in)

NextCov ==
  \/ CovPerturb
  \/ CovCheckAdjusted
  \/ CovCheckPerturbed
  \/ CovRays
  \/ CovAdjust
  \/ CovNominal
  \/ CovColumn
  \/ CovReturn
  \/ CovSatellite
  \/ CovPropagate

SpecCov == InitCov /\ [][NextCov]_vars

\* ---------------------------------------------------------------------
\* prism2asp.cc: the position samples are extended past the last image
\* line.  Times are integers, in units of 1e-6 seconds.
\* ---------------------------------------------------------------------
\* double tol = 1e-6
tol == 1

\* void checkSpacing(vals, spacing, tol, tag): the message of the error
\* thrown, "" when the function returns
checkSpacing(vals, spacing, tl, tag) ==
  IF spacing <= 0 THEN "Expecting positive time spacing between samples."
  ELSE IF \E k \in 2..Len(vals) : Abs((vals[k] - vals[k - 1]) - spacing) > tl
    THEN "Expecting all " \o tag \o " values to be spaced by the spacing."
  ELSE ""

\* the projected coordinates of the position p in the stereographic
\* projection centred at the position last, and the position of the
\* projected point q
geodetic_to_point(last, p) == [k \in 1..3 |-> p[k] - last[k]]

point_to_geodetic(last, q) == [k \in 1..3 |-> q[k] + last[k]]

\* u - 3 * v + 3 * w
Parabola(u, v, w) == [k \in 1..3 |-> u[k] - 3 * v[k] + 3 * w[k]]

\* a code variant of extrapolatePosition that repeats the last time
extrapolatePositionSameTime(dt, times, positions, velocities) ==
  IF Len(positions) < 3
    THEN [kind |-> "throw",
          what |-> "Expecting at least 3 positions for parabola extrapolation."]
  ELSE IF dt <= 0
    THEN [kind |-> "throw",
          what |-> "Expecting positive time spacing between samples."]
  ELSE IF checkSpacing(times, dt, tol, "position") # ""
    THEN [kind |-> "throw", what |-> checkSpacing(times, dt, tol, "position")]
  ELSE LET num_pos == Len(positions)
           last == positions[num_pos]
           next_proj == Parabola(geodetic_to_point(last, positions[num_pos - 2]),
                                 geodetic_to_point(last, positions[num_pos - 1]),
                                 geodetic_to_point(last, positions[num_pos]))
           next_vel == Parabola(velocities[num_pos - 2],
                                velocities[num_pos - 1], velocities[num_pos])
       IN  [kind |-> "ok",
            times |-> Append(times, times[Len(times)]),
            positions |-> Append(positions, point_to_geodetic(last, next_proj)),
            velocities |-> Append(velocities, next_vel)]

\* void extrapolatePosition(datum, dt, times, positions, velocities): the
\* exception thrown, or the three vectors when the function returns.  Of
\* the loop over i only the last turn, i = num_pos - 1, has an effect
extrapolatePosition(dt, times, positions, velocities) ==
  IF Len(positions) < 3
    THEN [kind |-> "throw",
          what |-> "Expecting at least 3 positions for parabola extrapolation."]
  ELSE IF dt <= 0
    THEN [kind |-> "throw",
          what |-> "Expecting positive time spacing between samples."]
  ELSE IF checkSpacing(times, dt, tol, "position") # ""
    THEN [kind |-> "throw", what |-> checkSpacing(times, dt, tol, "position")]
  ELSE LET num_pos == Len(positions)
           last == positions[num_pos]
           next_proj == Parabola(geodetic_to_point(last, positions[num_pos - 2]),
                                 geodetic_to_point(last, positions[num_pos - 1]),
                                 geodetic_to_point(last, positions[num_pos]))
           next_vel == Parabola(velocities[num_pos - 2],
                                velocities[num_pos - 1], velocities[num_pos])
       IN  [kind |-> "ok",
            times |-> Append(times, times[Len(times)] + dt),
            positions |-> Append(positions, point_to_geodetic(last, next_proj)),
            velocities |-> Append(velocities, next_vel)]

\* the position times read from the file: n samples from t0 on, spaced by
\* dt, the last one later by e
PrismTimes(t0, dt, n, e) ==
  [k \in 1..n |-> t0 + (k - 1) * dt + (IF k = n /\ n > 2 THEN e ELSE 0)]

\* the positions and the velocities of n samples on an orbit
PrismPositions(n) == [k \in 1..n |-> <<k * k, 7 * k, 3>>]

PrismVelocities(n) == [k \in 1..n |-> <<2 * k, 7, 0>>]

\* What parsePrismXml returns: the times of the first and of the last
\* image line, the position samples (as many positions and velocities as
\* times) and the times of the roll-pitch-yaw samples
PrismInputs ==
  { [first_line_time |-> f, last_line_time |-> f + span,
     position_times |-> PrismTimes(f + t0, dt, n, e),
     positions |-> PrismPositions(n), velocities |-> PrismVelocities(n),
     rpy_times |-> [k \in 1..3 |-> f - 30 + (k - 1) * rdt]] :
    f \in {0, 100}, span \in {0, 25, 41, 60}, t0 \in {-20, 0, 5},
    dt \in {-10, 0, 10}, n \in 2..4, e \in {0, 1, 5}, rdt \in {50, 0} }

\* prism2asp after parsePrismXml has returned in
PrismStart(in) ==
  [pc |-> "parsed",
   first_line_time |-> in.first_line_time,
   last_line_time |-> in.last_line_time,
   position_times |-> in.position_times,
   positions |-> in.positions, velocities |-> in.velocities,
   rpy_times |-> in.rpy_times,
   dt_ephem |-> 0, calls |-> 0, what |-> ""]

\* lines 303-309: all times are shifted by the time of the first line
PrismShift ==
  /\ prism.pc = "parsed"
  /\ LET time_shift == prism.first_line_time
     IN  prism' = [prism EXCEPT
           !.first_line_time = @ - time_shift,
           !.last_line_time = @ - time_shift,
           !.position_times = [k \in 1..Len(@) |-> @[k] - time_shift],
           !.rpy_times = [k \in 1..Len(@) |-> @[k] - time_shift],
           !.pc = "shifted"]
  /\ UNCHANGED <<jitter, cov>>

\* lines 315-328: the sampling of the positions and of roll-pitch-yaw
PrismSampling ==
  /\ prism.pc = "shifted"
  /\ LET dt_ephem == prism.position_times[2] - prism.position_times[1]
         dt_quat == prism.rpy_times[2] - prism.rpy_times[1]
         e1 == checkSpacing(prism.position_times, dt_ephem, tol, "position")
         e2 == checkSpacing(prism.rpy_times, dt_quat, tol, "roll-pitch-yaw")
     IN  IF e1 # ""
           THEN prism' = [prism EXCEPT !.dt_ephem = dt_ephem,
                                       !.pc = "failed", !.what = e1]
         ELSE IF e2 # ""
           THEN prism' = [prism EXCEPT !.dt_ephem = dt_ephem,
                                       !.pc = "failed", !.what = e2]
         ELSE prism' = [prism EXCEPT !.dt_ephem = dt_ephem, !.pc = "loop"]
  /\ UNCHANGED <<jitter, cov>>

\* lines 334-335: one turn of the loop
\* while (position_times.back() < last_line_time - tol)
PrismExtrapolate ==
  /\ prism.pc = "loop"
  /\ prism.position_times[Len(prism.position_times)]
       < prism.last_line_time - tol
  /\ LET r == extrapolatePosition(prism.dt_ephem, prism.position_times,
                                  prism.positions, prism.velocities)
     IN  IF r.kind = "throw"
           THEN prism' = [prism EXCEPT !.pc = "failed", !.what = r.what,
                                       !.calls = @ + 1]
         ELSE prism' = [prism EXCEPT !.position_times = r.times,
                                     !.positions = r.positions,
                                     !.velocities = r.velocities,
                                     !.calls = @ + 1]
  /\ UNCHANGED <<jitter, cov>>

\* the loop is left, and lines 338-345: the sanity checks of the ranges
PrismRanges ==
  /\ prism.pc = "loop"
  /\ ~(prism.position_times[Len(prism.position_times)]
         < prism.last_line_time - tol)
  /\ IF \/ prism.position_times[1] > prism.first_line_time + tol
        \/ prism.position_times[Len(prism.position_times)]
             < prism.last_line_time - tol
       THEN prism' = [prism EXCEPT !.pc = "failed", !.what =
              "The position time range must encompass the image lines time range."]
     ELSE IF \/ prism.rpy_times[1] > prism.first_line_time + tol
             \/ prism.rpy_times[Len(prism.rpy_times)]
                  < prism.last_line_time - tol
       THEN prism' = [prism EXCEPT !.pc = "failed", !.what =
              "The roll-pitch-yaw time range must encompass the image lines time range."]
     ELSE prism' = [prism EXCEPT !.pc = "ranges_ok"]
  /\ UNCHANGED <<jitter, cov>>

InitPrism ==
  /\ JitterIdle
  /\ cov = CovIdle
  /\ \E in \in PrismInputs : prism = PrismStart(in)

NextPrism ==
  \/ PrismShift
  \/ PrismSampling
  \/ PrismExtrapolate
  \/ PrismRanges

SpecPrism == InitPrism /\ [][NextPrism]_vars

\* prism2asp is one thread of control: it takes its next step as long as
\* it has one
SpecPrismRun == SpecPrism /\ WF_vars(NextPrism)

\* ---------------------------------------------------------------------
\* The perturbations
\* ---------------------------------------------------------------------

\* the perturbation number num of the table: the three position components
\* followed by the four quaternion components
Delta7(num) == At(cov.deltas, num).pos \o At(cov.deltas, num).quat

\* the spacing of coordinate j (0..6)
Spacing(j) == IF j < 3 THEN deltaPosition ELSE deltaQuat

\* perturbation num is sign times the spacing on coordinate j and zero on
\* the six others
Carries(num, j, sign) ==
  \A a \in 1..7 : Delta7(num)[a] = IF a = j + 1 THEN sign * Spacing(j) ELSE 0

\* C16: for num in 0..14, positionDelta(num) is zero for num = 0 and for
\* num >= 7 and has, for num in 1..6, its one non-zero component at axis
\* (num-1) div 2, +deltaPosition for odd num and -deltaPosition for even
\* num; quatDelta(num) is zero for num <= 6 and has, for num in 7..14, its
\* one non-zero component at index (num-7) div 2, +deltaQuat for odd num
\* and -deltaQuat for even num.  Hence in the complete table number 0 is the
\* only nominal one and each of the 7 coordinates has exactly one plus and
\* one minus perturbation, the negatives of each other.
C16_Deltas ==
  cov.pc # "idle" =>
    /\ \A num \in 0..(Len(cov.deltas) - 1) :
         LET p == At(cov.deltas, num).pos
             q == At(cov.deltas, num).quat
             s == IF num % 2 = 1 THEN 1 ELSE -1
         IN  /\ Len(p) = 3 /\ Len(q) = 4
             /\ (num = 0 \/ num >= 7) => p = <<0, 0, 0>>
             /\ num \in 1..6 =>
                  \A a \in 1..3 :
                    p[a] = IF a - 1 = (num - 1) \div 2
                           THEN s * deltaPosition ELSE 0
             /\ num <= 6 => q = <<0, 0, 0, 0>>
             /\ num \in 7..14 =>
                  \A a \in 1..4 :
                    q[a] = IF a - 1 = (num - 7) \div 2
                           THEN s * deltaQuat ELSE 0
    /\ Len(cov.deltas) = 15 =>
         /\ {num \in 0..14 : \A a \in 1..7 : Delta7(num)[a] = 0} = {0}
         /\ \A j \in 0..6 :
              LET plus == {num \in 0..14 : Carries(num, j, 1)}
                  minus == {num \in 0..14 : Carries(num, j, -1)}
              IN  /\ Cardinality(plus) = 1
                  /\ Cardinality(minus) = 1
                  /\ \A np \in plus, nm \in minus, a \in 1..7 :
                       Delta7(np)[a] = -Delta7(nm)[a]

\* the table of the 15 perturbations is complete and the Jacobian is about
\* to be computed from cameras created with it
C16_Witness ==
  /\ cov.pc = "call"
  /\ Len(cov.deltas) = numCamsForCovariance
  /\ At(cov.deltas, 1).pos = <<deltaPosition, 0, 0>>
  /\ At(cov.deltas, 14).quat = <<0, 0, 0, -deltaQuat>>

\* ---------------------------------------------------------------------
\* The Jacobian of the triangulated point
\* ---------------------------------------------------------------------

\* the loop over the columns has started
InColumns ==
  \/ cov.pc \in {"loop", "done", "crashed", "satellite", "returned"}
  \/ cov.pc = "failed" /\ cov.what = "Could not compute the covariance."

\* entry k of the vectors of directions and centres of one camera
RayAt(dirs, ctrs, k) == [dir |-> At(dirs, k), ctr |-> At(ctrs, k)]

\* C17: for every column k in 0..13 the plus and the minus triangulation
\* take, for the camera that owns coordinate k (camera 1 for k < 7, camera
\* 2 for k >= 7), entries 2j+1 and 2j+2 (j = k mod 7) of the 15 rays of
\* that camera, which are the rays of the cameras perturbed by +delta and
\* by -delta on coordinate j alone, and take entry 0, the nominal ray, for
\* the other camera.
C17_ColumnVariants ==
  InColumns =>
    \A k \in 0..(Len(cov.used) - 1) :
      LET u == At(cov.used, k)
          j == k % 7
          own == IF k < 7 THEN <<u.ix.cam1_plus, u.ix.cam1_minus>>
                 ELSE <<u.ix.cam2_plus, u.ix.cam2_minus>>
          other == IF k < 7 THEN <<u.ix.cam2_plus, u.ix.cam2_minus>>
                   ELSE <<u.ix.cam1_plus, u.ix.cam1_minus>>
      IN  /\ own = <<2 * j + 1, 2 * j + 2>>
          /\ other = <<0, 0>>
          /\ Carries(own[1], j, 1)
          /\ Carries(own[2], j, -1)
          /\ Len(cov.cam1_dirs) = 15 =>
               /\ u.plus1 = RayAt(cov.cam1_dirs, cov.cam1_ctrs, u.ix.cam1_plus)
               /\ u.minus1 =
                    RayAt(cov.cam1_dirs, cov.cam1_ctrs, u.ix.cam1_minus)
               /\ u.plus2 = RayAt(cov.cam2_dirs, cov.cam2_ctrs, u.ix.cam2_plus)
               /\ u.minus2 =
                    RayAt(cov.cam2_dirs, cov.cam2_ctrs, u.ix.cam2_minus)
               /\ u.tri_plus = triangulate_pair(u.plus1.dir, u.plus1.ctr,
                                                u.plus2.dir, u.plus2.ctr)
               /\ u.tri_minus = triangulate_pair(u.minus1.dir, u.minus1.ctr,
                                                 u.minus2.dir, u.minus2.ctr)

\* the 14 columns were computed from two complete sets of perturbed
\* cameras, and the rays of the plus and of the minus camera differ in a
\* column of each camera
C17_Witness ==
  /\ cov.pc = "done"
  /\ Len(cov.used) = 14
  /\ Len(cov.cam1_dirs) = 15
  /\ At(cov.used, 1).plus1 # At(cov.used, 1).minus1
  /\ At(cov.used, 10).plus2 # At(cov.used, 10).minus2
  /\ At(cov.used, 10).plus1 = RayAt(cov.cam1_dirs, cov.cam1_ctrs, 0)

\* the columns of J computed so far
Computed == 0..(Len(cov.used) - 1)

\* C18: the Jacobian has 3 rows and 14 columns, and its column k is the
\* rotation into the NED frame at the nominal triangulated point applied
\* to (tri_plus - tri_minus)/2, not divided by deltaPosition or deltaQuat;
\* hence a column is zero whenever the plus and the minus rays of its
\* coordinate have the same origin and the same direction.
C18_Column ==
  InColumns =>
    /\ Len(cov.J) = 14
    /\ \A k \in 1..14 : Len(cov.J[k]) = 3
    /\ \A k \in Computed :
         LET u == At(cov.used, k)
         IN  /\ At(cov.J, k) =
                  MatVec(EcefToNedAt(cov.tri_nominal),
                         VHalf(VSub(u.tri_plus, u.tri_minus)))
             /\ (u.plus1 = u.minus1 /\ u.plus2 = u.minus2) =>
                  At(cov.J, k) = <<0, 0, 0>>

\* ---------------------------------------------------------------------
\* Adjusted cameras
\* ---------------------------------------------------------------------

\* the error for one adjusted and one unadjusted camera
MixedError == "The cameras must be either both adjusted or both unadjusted."

\* the check of the adjustments has run
AdjustedChecked == cov.pc \notin {"idle", "perturb", "call"}

\* the vectors of directions and centres are complete, adjustments included
RaysReady ==
  \/ cov.pc = "nominal"
  \/ InColumns
  \/ cov.pc = "failed" /\ cov.what = "Could not triangulate."

\* the ray the unadjusted camera model k of camera n returns (k = 0 the
\* nominal camera, k > 0 the perturbed camera k - 1)
RawRay(n, k) ==
  LET nom == IF n = 1
             THEN [dir |-> cov.in.rays.dir1, ctr |-> cov.in.rays.ctr1]
             ELSE [dir |-> cov.in.rays.dir2, ctr |-> cov.in.rays.ctr2]
  IN  IF k = 0 THEN nom
      ELSE VariantRay(nom, cov.deltas, cov.in.blind, k - 1)

\* C19: the function fails with the error for mixed cameras, and leaves J
\* as the caller passed it, exactly when one of the two cameras is adjusted
\* and the other is not; when both are adjusted, the rotation and the
\* translation of each camera are applied to its nominal and to each of
\* its perturbed directions and centres before any triangulation.
C19_Adjusted ==
  /\ AdjustedChecked =>
       /\ (cov.pc = "failed" /\ cov.what = MixedError)
            <=> (cov.in.adj1 # cov.in.adj2)
       /\ cov.in.adj1 # cov.in.adj2 => cov.J = <<>>
  /\ (cov.pc # "idle" /\ ~RaysReady) =>
       cov.used = <<>> /\ cov.tri_nominal = <<0, 0, 0>>
  /\ RaysReady =>
       /\ \A k \in 0..(Len(cov.cam1_dirs) - 1) :
            IF cov.in.adj1 /\ cov.in.adj2
            THEN /\ At(cov.cam1_dirs, k) =
                      MatVec(cov.in.cam1_rot, RawRay(1, k).dir)
                 /\ At(cov.cam1_ctrs, k) =
                      VAdd(MatVec(cov.in.cam1_rot, RawRay(1, k).ctr),
                           cov.in.cam1_shift)
                 /\ At(cov.cam2_dirs, k) =
                      MatVec(cov.in.cam2_rot, RawRay(2, k).dir)
                 /\ At(cov.cam2_ctrs, k) =
                      VAdd(MatVec(cov.in.cam2_rot, RawRay(2, k).ctr),
                           cov.in.cam2_shift)
            ELSE /\ At(cov.cam1_dirs, k) = RawRay(1, k).dir
                 /\ At(cov.cam1_ctrs, k) = RawRay(1, k).ctr
                 /\ At(cov.cam2_dirs, k) = RawRay(2, k).dir
                 /\ At(cov.cam2_ctrs, k) = RawRay(2, k).ctr

\* both cameras are adjusted, the 15 rays of each were moved by its
\* adjustment, and the Jacobian was computed from them
C19_Witness ==
  /\ cov.pc = "done"
  /\ cov.in.adj1 /\ cov.in.adj2
  /\ Len(cov.cam1_dirs) = 15
  /\ At(cov.cam2_ctrs, 3) # RawRay(2, 3).ctr
  /\ At(cov.cam1_dirs, 0) # At(cov.cam2_dirs, 0)
  /\ ~cov.out_of_bounds

\* ---------------------------------------------------------------------
\* The nominal triangulation
\* ---------------------------------------------------------------------

\* the nominal pair of rays was triangulated
NominalTriangulated ==
  \/ InColumns
  \/ cov.pc = "failed" /\ cov.what = "Could not triangulate."

\* a component of the point is not-a-number or infinite
NonFinite(tri) == \E a \in 1..3 : tri[a] = NaN \/ IsInf(tri[a])

\* C20: whenever the triangulation of the nominal pair of rays gives a
\* point with a component that is not-a-number or infinite, the function
\* fails with an error and produces no Jacobian.
C20_NonFiniteFails ==
  (NominalTriangulated /\ NonFinite(cov.tri_nominal)) =>
    /\ cov.pc = "failed"
    /\ cov.what = "Could not triangulate."
    /\ cov.J = <<>>

\* ---------------------------------------------------------------------
\* The checks of the perturbed cameras
\* ---------------------------------------------------------------------

\* the checks of the DG cameras and of their perturbed cameras have run,
\* or the function failed before them
PerturbedChecked == cov.pc \notin {"idle", "perturb", "call", "dg"}

\* C21: the function fails with a descriptive error, before it computes a
\* ray or a triangulation, when one of the cameras is not a DG camera with
\* perturbed cameras, when the set of perturbed cameras of one of them is
\* empty, and when the two sets differ in size.
C21_PerturbedChecks ==
  LET in == cov.in
      mixed == in.adj1 # in.adj2
  IN  PerturbedChecked =>
        /\ (~in.dg1 \/ ~in.dg2 \/ in.size1 = 0 \/ in.size2 = 0
              \/ in.size1 # in.size2) =>
             /\ cov.pc = "failed"
             /\ cov.what # ""
             /\ cov.cam1_dirs = <<>> /\ cov.cam1_ctrs = <<>>
             /\ cov.cam2_dirs = <<>> /\ cov.cam2_ctrs = <<>>
             /\ cov.used = <<>>
             /\ cov.J = <<>>
        /\ (~mixed /\ (~in.dg1 \/ ~in.dg2)) =>
             cov.what = "Expecting DG cameras."
        /\ (~mixed /\ in.dg1 /\ in.dg2 /\ (in.size1 = 0 \/ in.size2 = 0)) =>
             cov.what = "The perturbed cameras were not set up."
        /\ (~mixed /\ in.dg1 /\ in.dg2 /\ in.size1 # 0 /\ in.size2 # 0
              /\ in.size1 # in.size2) =>
             cov.what =
               "The number of perturbations in the two cameras do not agree."

\* two DG cameras, both with perturbed cameras, whose sets differ in size,
\* were refused
C21_Witness ==
  /\ cov.pc = "failed"
  /\ cov.in.dg1 /\ cov.in.dg2
  /\ cov.in.size1 > cov.in.size2 /\ cov.in.size2 > 0
  /\ cov.what = "The number of perturbations in the two cameras do not agree."

\* ---------------------------------------------------------------------
\* The reads of the vectors of rays
\* ---------------------------------------------------------------------

\* the input covariance has been assembled (line 348 has returned)
SatelliteAssembled ==
  \/ cov.pc \in {"satellite", "returned"}
  \/ cov.pc = "failed" /\ cov.what = "Could not compute the covariance."

\* where the value of entry (r, c), r <= c, of a block of the given size
\* lies among the values of its upper triangle, listed row by row
UpperIndex(size, r, c) == r * size - (r * (r - 1)) \div 2 + (c - r)

\* the four blocks of the input covariance: the first row and column, the
\* size and the scaled values of each
CovBlocks(sc) ==
  <<[start |-> 0, size |-> 3,
     vals |-> ScaleCov(sc.p_cov1, sc.pf, deltaPosition)],
    [start |-> 3, size |-> 4,
     vals |-> ScaleCov(sc.q_cov1, sc.qf, deltaQuat)],
    [start |-> 7, size |-> 3,
     vals |-> ScaleCov(sc.p_cov2, sc.pf, deltaPosition)],
    [start |-> 10, size |-> 4,
     vals |-> ScaleCov(sc.q_cov2, sc.qf, deltaQuat)]>>

\* C22: the assembled input covariance is a symmetric 14x14 matrix of four
\* blocks on the diagonal (rows and columns 0..2, 3..6, 7..9, 10..13), each
\* filled from the values of its upper triangle listed row by row and
\* mirrored below the diagonal; no entry lies in two blocks and every entry
\* outside the blocks is zero
C22_BlockDiagonal ==
  SatelliteAssembled =>
    LET C == cov.C
        blocks == CovBlocks(cov.sc)
    IN  /\ DOMAIN C = 1..14
        /\ \A r \in 1..14 : DOMAIN C[r] = 1..14
        /\ \A r, c \in 1..14 : C[r][c] = C[c][r]
        /\ \A r, c \in 0..13 :
             LET inside == {b \in 1..4 :
                              /\ blocks[b].start <= r
                              /\ r < blocks[b].start + blocks[b].size
                              /\ blocks[b].start <= c
                              /\ c < blocks[b].start + blocks[b].size}
             IN  IF inside = {} THEN C[r + 1][c + 1] = 0
                 ELSE /\ Cardinality(inside) = 1
                      /\ \A b \in inside :
                           LET lo == (IF r <= c THEN r ELSE c)
                                       - blocks[b].start
                               hi == (IF r <= c THEN c ELSE r)
                                       - blocks[b].start
                           IN  C[r + 1][c + 1] =
                                 blocks[b].vals[
                                   UpperIndex(blocks[b].size, lo, hi) + 1]

\* a covariance was returned whose second position block has an entry off
\* the diagonal that is not zero, above and below the diagonal
C22_Witness ==
  /\ cov.pc = "returned"
  /\ cov.sc.positive /\ cov.sc.pf = 3
  /\ cov.C[9][10] = 3 /\ cov.C[10][9] = 3
  /\ cov.C[7][8] = 0 /\ cov.C[10][11] = 0

\* the step by which the column k (0..13) of the Jacobian was divided: the
\* component that the plus perturbation of its coordinate carries
ColumnStep(k) == Delta7(2 * (k % 7) + 1)[(k % 7) + 1]

\* the factor of the kind of column k (0..13) of the Jacobian: columns 0..2
\* and 7..9 are positions, the others orientations
ColumnFactor(k) == IF k % 7 < 3 THEN cov.sc.pf ELSE cov.sc.qf

\* the interpolated value that entry (r, c) of the input covariance comes
\* from, for r and c in block b
RawValue(b, r, c) ==
  LET raw == <<cov.sc.p_cov1, cov.sc.q_cov1, cov.sc.p_cov2, cov.sc.q_cov2>>
      blk == CovBlocks(cov.sc)[b]
      lo == (IF r <= c THEN r ELSE c) - blk.start
      hi == (IF r <= c THEN c ELSE r) - blk.start
  IN  raw[b][UpperIndex(blk.size, lo, hi) + 1]

\* C23: every entry of a position block is the interpolated value times the
\* position factor divided by the square of deltaPosition, every entry of
\* an orientation block the interpolated value times the orientation
\* factor divided by the square of deltaQuat: the step and the factor are
\* those of the kind of the Jacobian columns of the entry
C23_Scaled ==
  SatelliteAssembled /\ Len(cov.deltas) = numCamsForCovariance =>
    \A b \in 1..4 :
      LET blk == CovBlocks(cov.sc)[b]
          rows == blk.start .. (blk.start + blk.size - 1)
      IN  \A r, c \in rows :
            /\ ColumnStep(r) = ColumnStep(c)
            /\ ColumnStep(r) = (IF blk.size = 3 THEN deltaPosition
                                ELSE deltaQuat)
            /\ ColumnFactor(r) = ColumnFactor(c)
            /\ ColumnFactor(r) = (IF blk.size = 3 THEN cov.sc.pf
                                  ELSE cov.sc.qf)
            /\ (ColumnFactor(r) * RawValue(b, r, c))
                 % (ColumnStep(r) * ColumnStep(c)) = 0
            /\ cov.C[r + 1][c + 1] =
                 (ColumnFactor(r) * RawValue(b, r, c))
                   \div (ColumnStep(r) * ColumnStep(c))

\* a covariance was returned whose position and orientation factors differ
\* and whose position and orientation entries are not zero
C23_Witness ==
  /\ cov.pc = "returned"
  /\ Len(cov.deltas) = numCamsForCovariance
  /\ cov.sc.pf = 3 /\ cov.sc.qf = 1
  /\ cov.sc.p_cov1[1] = 2 * PosUnit /\ cov.C[1][1] = 6
  /\ cov.sc.q_cov2[1] = 3 /\ cov.C[11][11] = 3

\* propagateCovariance has returned or has failed at its last check
Propagated ==
  \/ cov.pc = "returned"
  \/ cov.pc = "failed" /\ cov.what = "Could not compute the covariance."

\* every entry of the input covariance is zero
ZeroCovariance == \A r, c \in 1..14 : cov.C[r][c] = 0

\* C24: for any Jacobian, an input covariance that is zero everywhere
\* gives a propagated covariance P that is zero everywhere, hence a
\* horizontal and a vertical component equal to zero, and the function
\* does not fail
C24_ZeroCovariance ==
  Propagated /\ ZeroCovariance =>
    /\ cov.pc = "returned"
    /\ \A r, s \in 1..3 : cov.P[r][s] = 0
    /\ cov.ans = <<0, 0>>

\* x is a finite double
Finite(x) == x # NaN /\ ~IsInf(x)

\* Integers of any size, for the minors of P: the base of their digits
LimbBase == 10 * 10 * 10

RECURSIVE ToLimbs(_)
\* the digits of the natural n, the least significant first
ToLimbs(n) ==
  IF n = 0 THEN <<>> ELSE <<n % LimbBase>> \o ToLimbs(n \div LimbBase)

RECURSIVE Strip(_)
\* the digits a without the zeros at the most significant end
Strip(a) ==
  IF a = <<>> THEN a
  ELSE IF a[Len(a)] = 0 THEN Strip(SubSeq(a, 1, Len(a) - 1))
  ELSE a

RECURSIVE AddL(_, _, _)
\* a + b + carry on digits
AddL(a, b, carry) ==
  IF a = <<>> /\ b = <<>> THEN (IF carry = 0 THEN <<>> ELSE <<carry>>)
  ELSE LET x == IF a = <<>> THEN 0 ELSE Head(a)
           y == IF b = <<>> THEN 0 ELSE Head(b)
           s == x + y + carry
       IN  <<s % LimbBase>> \o
             AddL(IF a = <<>> THEN a ELSE Tail(a),
                  IF b = <<>> THEN b ELSE Tail(b), s \div LimbBase)

RECURSIVE SubL(_, _, _)
\* a - b - borrow on digits, for a >= b + borrow
SubL(a, b, borrow) ==
  IF a = <<>> THEN <<>>
  ELSE LET y == IF b = <<>> THEN 0 ELSE Head(b)
           d == Head(a) - y - borrow
       IN  <<IF d < 0 THEN d + LimbBase ELSE d>> \o
             SubL(Tail(a), IF b = <<>> THEN b ELSE Tail(b),
                  IF d < 0 THEN 1 ELSE 0)

RECURSIVE LessL(_, _)
\* a < b on digits without leading zeros
LessL(a, b) ==
  IF Len(a) # Len(b) THEN Len(a) < Len(b)
  ELSE IF a = <<>> THEN FALSE
  ELSE IF a[Len(a)] # b[Len(b)] THEN a[Len(a)] < b[Len(b)]
  ELSE LessL(Strip(SubSeq(a, 1, Len(a) - 1)),
             Strip(SubSeq(b, 1, Len(b) - 1)))

RECURSIVE MulDigit(_, _, _)
\* a * d + carry on digits, d one digit
MulDigit(a, d, carry) ==
  IF a = <<>> THEN (IF carry = 0 THEN <<>> ELSE <<carry>>)
  ELSE LET s == Head(a) * d + carry
       IN  <<s % LimbBase>> \o MulDigit(Tail(a), d, s \div LimbBase)

RECURSIVE MulL(_, _)
\* a * b on digits
MulL(a, b) ==
  IF b = <<>> THEN <<>>
  ELSE AddL(MulDigit(a, Head(b), 0), <<0>> \o MulL(a, Tail(b)), 0)

\* the integer n as a sign and digits
Wide(n) == [neg |-> n < 0, mag |-> ToLimbs(Abs(n))]

\* x * y on signs and digits
WMul(x, y) ==
  [neg |-> x.neg # y.neg, mag |-> Strip(MulL(x.mag, y.mag))]

\* x + y on signs and digits
WAdd(x, y) ==
  IF x.neg = y.neg THEN [neg |-> x.neg, mag |-> Strip(AddL(x.mag, y.mag, 0))]
  ELSE IF LessL(Strip(x.mag), Strip(y.mag))
    THEN [neg |-> y.neg, mag |-> Strip(SubL(y.mag, x.mag, 0))]
  ELSE [neg |-> x.neg, mag |-> Strip(SubL(x.mag, y.mag, 0))]

\* x - y on signs and digits
WSub(x, y) == WAdd(x, [neg |-> ~y.neg, mag |-> y.mag])

\* x >= 0 on signs and digits
WNonNegative(x) == ~x.neg \/ Strip(x.mag) = <<>>

\* the minor of the 3x3 matrix M on rows and columns r and s
Minor2(M, r, s) ==
  WSub(WMul(Wide(M[r][r]), Wide(M[s][s])),
       WMul(Wide(M[r][s]), Wide(M[s][r])))

\* the cofactor expansion of the determinant of the 3x3 matrix M
Det3(M) ==
  LET m(a, b, c, d) == WSub(WMul(Wide(M[2][a]), Wide(M[3][b])),
                            WMul(Wide(M[2][c]), Wide(M[3][d])))
  IN  WAdd(WSub(WMul(Wide(M[1][1]), m(2, 3, 3, 2)),
                WMul(Wide(M[1][2]), m(1, 3, 3, 1))),
           WMul(Wide(M[1][3]), m(1, 2, 2, 1)))

\* the symmetric 3x3 matrix M of integers is positive-semidefinite: its
\* principal minors are not negative
PositiveSemidefinite(M) ==
  /\ \A r \in 1..3 : M[r][r] >= 0
  /\ \A r, s \in 1..3 : r < s => WNonNegative(Minor2(M, r, s))
  /\ WNonNegative(Det3(M))

\* the interpolated covariances are positive definite and so are the
\* blocks scaled by the two factors
PositiveBlocks == cov.sc.positive /\ cov.sc.pf > 0 /\ cov.sc.qf > 0

\* every entry of the Jacobian is finite
FiniteJacobian == \A k \in 1..14, r \in 1..3 : Finite(cov.J[k][r])

\* C25: given symmetric positive input covariance blocks, the propagated
\* 3x3 matrix P = J C J^T is symmetric and positive-semidefinite, so that
\* the determinant of its upper-left 2x2 block is not negative and the
\* horizontal component, its square root, is defined
C25_PositiveSemidefinite ==
  Propagated /\ PositiveBlocks =>
    /\ \A r, s \in 1..3 : Finite(cov.P[r][s])
    /\ \A r, s \in 1..3 : cov.P[r][s] = cov.P[s][r]
    /\ PositiveSemidefinite(cov.P)
    /\ Summary(cov.P)[1] # NaN

\* C26: propagateCovariance never returns a summary that is not finite:
\* when the horizontal component sqrt(det(P[0..1][0..1])) or the vertical
\* component P[2][2] is not-a-number or infinite, it fails with an error
\* and returns nothing
C26_FiniteSummary ==
  Propagated =>
    LET ans == Summary(cov.P)
    IN  /\ ~Finite(ans[1]) \/ ~Finite(ans[2]) =>
             cov.pc = "failed" /\ cov.ans = <<>>
        /\ cov.pc = "returned" => Finite(cov.ans[1]) /\ Finite(cov.ans[2])

\* C27: once the checks of the perturbed cameras have passed (both sets
\* not empty and of the same size, whatever the size), every index 2c+1
\* and 2c+2 (c in 0..6) at which the vectors of directions and of centres
\* of a camera are read is inside the vectors.
C27_ReadsInBounds ==
  InColumns =>
    /\ \A c \in 0..6 :
         \A v \in {cov.cam1_dirs, cov.cam1_ctrs, cov.cam2_dirs, cov.cam2_ctrs} :
           2 * c + 1 < Len(v) /\ 2 * c + 2 < Len(v)
    /\ ~cov.out_of_bounds
    /\ cov.pc # "crashed"

\* the parameter blocks of residual block b: the numbers of quaternions and
\* of positions in its windows
NumQuatBlocks(b) == b.m_endQuatIndex - b.m_begQuatIndex

NumPosBlocks(b) == b.m_endPosIndex - b.m_begPosIndex

\* C28: for every residual block, the parameter blocks declared by Create
\* (nQ of size 4, then nP of size 3, then one of size 3 for the tie point)
\* agree in number, size and order with the pointers registered for the
\* block, and the evaluator reads parameter j as the quaternion begQuat + j
\* for j < nQ, as the position begPos + (j - nQ) for nQ <= j < nQ + nP and
\* as the tie point for j = nQ + nP: it reads no parameter outside
\* 0..nQ+nP and no sample outside the arrays of the camera
C28_ParameterBlocks ==
  \A n \in 1..Len(problem) :
    LET b == problem[n]
        nQ == NumQuatBlocks(b)
        nP == NumPosBlocks(b)
        cam == At(cams, b.m_ls_model)
    IN  /\ nQ >= 0 /\ nP >= 0
        /\ Len(b.sizes) = nQ + nP + 1
        /\ Len(b.vars) = nQ + nP + 1
        /\ \A j \in 0..(nQ + nP) :
             LET size == At(b.sizes, j)
                 ptr == At(b.vars, j)
             IN  /\ j < nQ =>
                      /\ size = 4
                      /\ ptr = [arr |-> "quat", cam |-> b.m_ls_model,
                                off |-> 4 * (b.m_begQuatIndex + j)]
                 /\ nQ <= j /\ j < nQ + nP =>
                      /\ size = 3
                      /\ ptr = [arr |-> "pos", cam |-> b.m_ls_model,
                                off |-> 3 * (b.m_begPosIndex + (j - nQ))]
                 /\ j = nQ + nP =>
                      /\ size = 3
                      /\ ptr.arr = "tri"
                      /\ ptr.off % 3 = 0
                      /\ ptr.off >= 0
                      /\ ptr.off + 2 < Len(tri_points_vec)
        /\ \A qi \in b.m_begQuatIndex..(b.m_endQuatIndex - 1) :
             /\ QuatParam(b, qi) \in 0..(nQ - 1)
             /\ At(b.vars, QuatParam(b, qi)).arr = "quat"
             /\ At(b.vars, QuatParam(b, qi)).off = 4 * qi
             /\ 0 <= qi /\ 4 * qi + 3 < Len(cam.m_quaternions)
        /\ \A pi \in b.m_begPosIndex..(b.m_endPosIndex - 1) :
             /\ PosParam(b, pi) \in nQ..(nQ + nP - 1)
             /\ At(b.vars, PosParam(b, pi)).arr = "pos"
             /\ At(b.vars, PosParam(b, pi)).off = 3 * pi
             /\ 0 <= pi /\ 3 * pi + 2 < Len(cam.m_positions)
        /\ PointParam(b) = nQ + nP
        /\ At(b.vars, PointParam(b)).arr = "tri"

\* the evaluator has run on a residual block whose windows differ in their
\* first index and in their length
C28_Witness ==
  /\ lastEval.ret = "true"
  /\ \E n \in 1..Len(problem) :
       /\ NumQuatBlocks(problem[n]) >= 2
       /\ NumPosBlocks(problem[n]) >= 2
       /\ NumQuatBlocks(problem[n]) # NumPosBlocks(problem[n])
       /\ problem[n].m_begQuatIndex # problem[n].m_begPosIndex
       /\ problem[n].m_begQuatIndex > 0

\* the samples of camera c (counted from 0) inside the quaternion window of
\* a registered residual block, and those inside a position window
InQuatWindow(c) ==
  UNION {problem[n].m_begQuatIndex..(problem[n].m_endQuatIndex - 1) :
           n \in {m \in 1..Len(problem) : problem[m].m_ls_model = c}}

InPosWindow(c) ==
  UNION {problem[n].m_begPosIndex..(problem[n].m_endPosIndex - 1) :
           n \in {m \in 1..Len(problem) : problem[m].m_ls_model = c}}

\* C29: after the solve, every quaternion and position sample outside the
\* windows of all the residual blocks registered for its camera, and the
\* coordinates of every outlier tie point, have the values they had before
\* the solve: only samples inside a window and tie points that are not
\* outliers can be changed by the solver
C29_Frame ==
  /\ \A c \in 1..Len(cams) :
       /\ \A k \in 1..Len(cams[c].m_quaternions) :
            (k - 1) \div NUM_QUAT_PARAMS \notin InQuatWindow(c - 1) =>
              cams[c].m_quaternions[k] = pre_cams[c].m_quaternions[k]
       /\ \A k \in 1..Len(cams[c].m_positions) :
            (k - 1) \div NUM_XYZ_PARAMS \notin InPosWindow(c - 1) =>
              cams[c].m_positions[k] = pre_cams[c].m_positions[k]
  /\ \A k \in 1..Len(tri_points_vec) :
       (k - 1) \div NUM_XYZ_PARAMS \in outliers =>
         tri_points_vec[k] = pre_tri[k]

\* the solve is over after a step that changed a quaternion, a position
\* and a tie point, with an outlier and with a camera that has a
\* quaternion inside and a quaternion and a position outside its windows
C29_Witness ==
  /\ pc = "done" /\ iter >= 1
  /\ outliers # {}
  /\ tri_points_vec # pre_tri
  /\ \E c \in 1..Len(cams) :
       /\ cams[c].m_quaternions # pre_cams[c].m_quaternions
       /\ cams[c].m_positions # pre_cams[c].m_positions
       /\ InQuatWindow(c - 1) # {}
       /\ \E s \in 0..(numQuat(cams[c]) - 1) : s \notin InQuatWindow(c - 1)
       /\ \E s \in 0..(numPos(cams[c]) - 1) : s \notin InPosWindow(c - 1)

\* the last element of a sequence that is not empty
Back(s) == s[Len(s)]

\* the errors of extrapolatePosition
ExtrapolationErrors ==
  {"Expecting at least 3 positions for parabola extrapolation.",
   "Expecting positive time spacing between samples.",
   "Expecting all position values to be spaced by the spacing."}

\* prism2asp has left the loop: the ranges were checked or an error ended
\* the run
LoopLeft == prism.pc \in {"ranges_ok", "failed"}

\* C30: the loop of prism2asp that calls extrapolatePosition while the last
\* position time is earlier than last_line_time - tol always terminates:
\* each call either fails with an error (fewer than 3 positions, a spacing
\* that is not positive or not the one of the times) and changes nothing,
\* or appends exactly one position, one velocity and one time, equal to
\* the last time plus dt with dt > 0, so that the three sequences keep the
\* same length and the spacing dt and the last time comes closer to the
\* time of the last line; hence the loop is left eventually
C30_LoopTerminates ==
  /\ [][PrismExtrapolate =>
          \/ /\ prism'.pc = "failed"
             /\ prism'.what \in ExtrapolationErrors
             /\ \/ Len(prism.positions) < 3
                \/ prism.dt_ephem <= 0
                \/ checkSpacing(prism.position_times, prism.dt_ephem, tol,
                                "position") # ""
             /\ prism'.position_times = prism.position_times
             /\ prism'.positions = prism.positions
             /\ prism'.velocities = prism.velocities
          \/ /\ prism'.pc = "loop"
             /\ prism.dt_ephem > 0
             /\ Len(prism'.position_times) = Len(prism.position_times) + 1
             /\ Len(prism'.positions) = Len(prism.positions) + 1
             /\ Len(prism'.velocities) = Len(prism.velocities) + 1
             /\ SubSeq(prism'.position_times, 1, Len(prism.position_times))
                  = prism.position_times
             /\ SubSeq(prism'.positions, 1, Len(prism.positions))
                  = prism.positions
             /\ SubSeq(prism'.velocities, 1, Len(prism.velocities))
                  = prism.velocities
             /\ Back(prism'.position_times)
                  = Back(prism.position_times) + prism.dt_ephem
             /\ Len(prism'.position_times) = Len(prism'.positions)
             /\ Len(prism'.positions) = Len(prism'.velocities)
             /\ \A k \in 2..Len(prism'.position_times) :
                  Abs((prism'.position_times[k]
                         - prism'.position_times[k - 1]) - prism.dt_ephem)
                    <= tol
             /\ prism.last_line_time - Back(prism'.position_times)
                  < prism.last_line_time - Back(prism.position_times)]_vars
  /\ (prism.pc = "loop") ~> LoopLeft

\* the loop was left after three calls that each appended a sample, with
\* the last position time at the time of the last line or later
C30_Witness ==
  /\ prism.pc = "ranges_ok"
  /\ prism.calls >= 3
  /\ Len(prism.position_times) >= 6
  /\ Back(prism.position_times) >= prism.last_line_time - tol

====
